---- MODULE Spec2Model ----
(***************************************************************************)
(* Trace reconstruction engine of embassy-visor: the tracing registry      *)
(* (TracingInstance), the executor state machine (ExecutorTraceInfo) and   *)
(* the task state machine (TaskTraceInfo), with their state histories and  *)
(* the time-windowed eviction.                                             *)
(*                                                                         *)
(* Times are natural numbers.  Host time (ComputerTime) is counted in      *)
(* seconds, the unit of HISTORY_MAX_TIME_S; device time (EmbassyTime) is   *)
(* counted in ticks of the device clock.  A TimePair is a record           *)
(* [uc |-> device time, pc |-> host time].                                 *)
(***************************************************************************)
EXTENDS Integers, Sequences, FiniteSets

VARIABLES
    executors,   \* TracingInstance.executors: Vec<ExecutorTraceInfo>
    ev,          \* the trace item applied last (NoItem before the first)
    steps,       \* number of trace items applied so far
    irregular,   \* number of items so far whose stamp was not a regular tick
    regressed,   \* TRUE once an item carried a device time below its predecessor's
    line,        \* the line handed to TraceItem::parse_from_line
    result,      \* what parse_from_line made of it (NoResult before the call)
    chan,        \* the trace channel: the items sent and not yet received
    trace_tx,    \* TRUE while a sender of the trace channel is alive
    sent,        \* every item sent on the trace channel so far, in order
    applied,     \* the items whose update call has returned, in order
    writer,      \* the thread of update_from_trace_items: [pc, item, i]
    mutex,       \* holder of TracingInstance.executors' Mutex, or Free
    readers,     \* the threads calling get_stats: [pc, stats] each
    event_rx,    \* TRUE while the receiver of the display's event channel is alive
    stdout,      \* the stdout thread of main.rs: [pc, lines, its two flags, logs]
    stats        \* the InstanceStats a get_stats call returned (NoStats before it)

parserVars == <<line, result>>
(* what the writer and the readers of the registry leave alone *)
otherVars == <<line, result, stdout, stats>>
threadVars == <<chan, trace_tx, sent, applied, writer, mutex, readers, event_rx>>
registryVars == <<executors, ev, steps, irregular, regressed>>
vars == <<executors, ev, steps, irregular, regressed, line, result,
          chan, trace_tx, sent, applied, writer, mutex, readers, event_rx,
          stdout, stats>>

(***************************************************************************)
(* Bounds of the model.                                                    *)
(***************************************************************************)
MaxEvents == 4
MaxTimedEvents == 3
MaxIrregular == 1
MaxFields == 5
MaxSent == 2
MaxLines == 4
MaxStatsEvents == 2
MaxWaits == 3
MaxTracked == 3

Readers == {"reader1", "reader2"}

ExecutorIds == {1, 2, 3}
TaskIds == {42}
CoreIds == {0, 1}

(* instance.rs: pub static HISTORY_MAX_TIME_S = 30 (seconds) *)
HISTORY_MAX_TIME_S == 30

(* Host-time distance of an item from its predecessor after a silence:     *)
(* exactly the window, just over the window.                               *)
GapDeltas == {HISTORY_MAX_TIME_S, HISTORY_MAX_TIME_S + 1}

(***************************************************************************)
(* time.rs                                                                 *)
(***************************************************************************)
TimePair(uc, pc) == [uc |-> uc, pc |-> pc]

(* a subtraction that goes below zero *)
saturating_sub_Signed(a, b) == a - b

(* Duration::saturating_sub, as used by ComputerTime and EmbassyTime *)
saturating_sub(a, b) == IF a >= b THEN a - b ELSE 0

(***************************************************************************)
(* trace_data.rs                                                           *)
(***************************************************************************)
ExecutorKinds == {"ExecutorIdle", "ExecutorPollStart"}
TaskKinds == {"TaskNew", "TaskEnd", "TaskExecBegin", "TaskExecEnd", "TaskReadyBegin"}

(* enum TraceItemType *)
TraceItemType ==
    [kind : ExecutorKinds, executor_id : ExecutorIds]
    \cup [kind : TaskKinds, executor_id : ExecutorIds, task_id : TaskIds]

get_executor_id(data) == data.executor_id

(* Option<u32> as a set with at most one element *)
get_task_id(data) == IF data.kind \in TaskKinds THEN {data.task_id} ELSE {}

TraceItem(time_pair, core_id, data) ==
    [time_pair |-> time_pair, core_id |-> core_id, data |-> data]

(***************************************************************************)
(* task.rs                                                                 *)
(***************************************************************************)
TaskSpawned == [k |-> "Spawned"]
TaskWaiting == [k |-> "Waiting"]
TaskRunning == [k |-> "Running"]
TaskIdle == [k |-> "Idle"]
TaskEnded == [k |-> "Ended"]
TaskPreempted(x) == [k |-> "Preempted", by_executor_id |-> x]

HistoryEntry(state, start_time, end_time) ==
    [state |-> state, start_time |-> start_time, end_time |-> end_time]

TaskTraceInfoNew(task_id, executor_id, core_id, created_at) ==
    [task_id |-> task_id,
     executor_id |-> executor_id,
     core_id |-> core_id,
     created_at |-> created_at,
     state |-> TaskSpawned,
     state_start_time |-> created_at,
     state_history |-> << >>]

(* set_new_state that leaves state_start_time at the start of the state left *)
set_new_state_KeepsStart(r, new_state, timestamp) ==
    IF r.state # new_state
    THEN [r EXCEPT !.state_history =
                       Append(@, HistoryEntry(r.state, r.state_start_time, timestamp)),
                   !.state = new_state]
    ELSE r

(* set_new_state that files the entry with start and end exchanged *)
set_new_state_SwapsEnds(r, new_state, timestamp) ==
    IF r.state # new_state
    THEN [r EXCEPT !.state_history =
                       Append(@, HistoryEntry(r.state, timestamp, r.state_start_time)),
                   !.state = new_state,
                   !.state_start_time = timestamp]
    ELSE r

(* set_new_state that files the entry as starting at the item that ends it *)
set_new_state_StartsNow(r, new_state, timestamp) ==
    IF r.state # new_state
    THEN [r EXCEPT !.state_history =
                       Append(@, HistoryEntry(r.state, timestamp, timestamp)),
                   !.state = new_state,
                   !.state_start_time = timestamp]
    ELSE r

(* set_new_state of both TaskTraceInfo and ExecutorTraceInfo: the same code *)
set_new_state(r, new_state, timestamp) ==
    IF r.state # new_state
    THEN [r EXCEPT !.state_history =
                       Append(@, HistoryEntry(r.state, r.state_start_time, timestamp)),
                   !.state = new_state,
                   !.state_start_time = timestamp]
    ELSE r

(* DrainHistory that also drops an entry whose age equals the window *)
RECURSIVE DrainHistory_AtWindow(_, _)
DrainHistory_AtWindow(history, current_pc_time) ==
    IF history # << >>
       /\ saturating_sub(current_pc_time, Head(history).end_time.pc) >= HISTORY_MAX_TIME_S
    THEN DrainHistory_AtWindow(Tail(history), current_pc_time)
    ELSE history

(* "while let Some(front) ... pop_front()": drop the front entries whose   *)
(* end lies more than the window before the current host time.             *)
RECURSIVE DrainHistory(_, _)
DrainHistory(history, current_pc_time) ==
    IF history # << >>
       /\ saturating_sub(current_pc_time, Head(history).end_time.pc) > HISTORY_MAX_TIME_S
    THEN DrainHistory(Tail(history), current_pc_time)
    ELSE history

(* TaskIsPreempted without the comparison of the cores *)
TaskIsPreempted_AnyCore(t, item) ==
    /\ t.state = TaskRunning
    /\ item.data.kind = "ExecutorPollStart"
    /\ item.data.executor_id # t.executor_id

(* task.rs 198-201: a Running task sees another executor start polling on its core *)
TaskIsPreempted(t, item) ==
    /\ t.state = TaskRunning
    /\ item.data.kind = "ExecutorPollStart"
    /\ item.core_id = t.core_id
    /\ item.data.executor_id # t.executor_id

(* TaskIsResumed by the ExecutorIdle of any executor *)
TaskIsResumed_AnyExecutor(t, item) ==
    /\ t.state.k = "Preempted"
    /\ item.data.kind = "ExecutorIdle"

(* task.rs 215-218: the preempting executor goes idle *)
TaskIsResumed(t, item) ==
    /\ t.state.k = "Preempted"
    /\ item.data.kind = "ExecutorIdle"
    /\ item.data.executor_id = t.state.by_executor_id

(* TaskTransition with a way out of Ended: a finished task is woken again *)
TaskTransition_EndedWakes(state, kind) ==
    CASE state = TaskSpawned /\ kind = "TaskReadyBegin" -> TaskWaiting
      [] state = TaskWaiting /\ kind = "TaskExecBegin" -> TaskRunning
      [] state = TaskRunning /\ kind = "TaskExecEnd" -> TaskIdle
      [] state = TaskRunning /\ kind = "TaskReadyBegin" -> TaskWaiting
      [] state = TaskRunning /\ kind = "TaskEnd" -> TaskEnded
      [] state \in {TaskIdle, TaskEnded} /\ kind = "TaskReadyBegin" -> TaskWaiting
      [] OTHER -> state

(* TaskTransition that leaves a Running task Running when it is woken *)
TaskTransition_DefersWake(state, kind) ==
    CASE state = TaskSpawned /\ kind = "TaskReadyBegin" -> TaskWaiting
      [] state = TaskWaiting /\ kind = "TaskExecBegin" -> TaskRunning
      [] state = TaskRunning /\ kind = "TaskExecEnd" -> TaskIdle
      [] state = TaskRunning /\ kind = "TaskEnd" -> TaskEnded
      [] state = TaskIdle /\ kind = "TaskReadyBegin" -> TaskWaiting
      [] OTHER -> state

(* task.rs 238-274: the match on self.state; the state the item leads to *)
TaskTransition(state, kind) ==
    CASE state = TaskSpawned /\ kind = "TaskReadyBegin" -> TaskWaiting
      [] state = TaskWaiting /\ kind = "TaskExecBegin" -> TaskRunning
      [] state = TaskRunning /\ kind = "TaskExecEnd" -> TaskIdle
      [] state = TaskRunning /\ kind = "TaskReadyBegin" -> TaskWaiting
      [] state = TaskRunning /\ kind = "TaskEnd" -> TaskEnded
      [] state = TaskIdle /\ kind = "TaskReadyBegin" -> TaskWaiting
      [] OTHER -> state

(* TaskTraceInfo::update *)
TaskUpdate(t, item) ==
    IF TaskIsPreempted(t, item)
    THEN set_new_state(t, TaskPreempted(item.data.executor_id), item.time_pair)
    ELSE IF TaskIsResumed(t, item)
    THEN set_new_state(t, TaskRunning, item.time_pair)
    ELSE IF get_executor_id(item.data) # t.executor_id
    THEN t
    ELSE IF get_task_id(item.data) # {t.task_id}
    THEN t
    ELSE LET moved == set_new_state(t, TaskTransition(t.state, item.data.kind),
                                    item.time_pair)
         IN  [moved EXCEPT !.state_history = DrainHistory(@, item.time_pair.pc)]

(***************************************************************************)
(* executor.rs                                                             *)
(***************************************************************************)
ExecIdle == [k |-> "Idle"]
ExecScheduling == [k |-> "Scheduling"]
ExecPolling == [k |-> "Polling"]
ExecPreempted(x, prev) == [k |-> "Preempted", by_executor_id |-> x, prev_state |-> prev]

(* impl Into<ExecutorState> for PreemptedPrevState *)
PrevStateInto(prev_state) ==
    IF prev_state = "Scheduling" THEN ExecScheduling ELSE ExecPolling

ExecutorTraceInfoNew(executor_id, core_id, created_at) ==
    [executor_id |-> executor_id,
     core_id |-> core_id,
     created_at |-> created_at,
     state |-> ExecIdle,
     state_start_time |-> created_at,
     state_history |-> << >>,
     tasks |-> << >>]

find_task_by_id(e, task_id) ==
    {i \in 1..Len(e.tasks) : e.tasks[i].task_id = task_id}

(* ExecIsPreempted without the comparison of the cores *)
ExecIsPreempted_AnyCore(e, item) ==
    /\ e.state \in {ExecPolling, ExecScheduling}
    /\ item.data.kind = "ExecutorPollStart"
    /\ item.data.executor_id # e.executor_id

(* executor.rs 205-208: an active executor sees another one start polling on its core *)
ExecIsPreempted(e, item) ==
    /\ e.state \in {ExecPolling, ExecScheduling}
    /\ item.data.kind = "ExecutorPollStart"
    /\ item.data.executor_id # e.executor_id
    /\ item.core_id = e.core_id

(* ExecIsResumed by the ExecutorIdle of any executor *)
ExecIsResumed_AnyExecutor(e, item) ==
    /\ e.state.k = "Preempted"
    /\ item.data.kind = "ExecutorIdle"

(* executor.rs 226-232: the preempting executor goes idle *)
ExecIsResumed(e, item) ==
    /\ e.state.k = "Preempted"
    /\ item.data.kind = "ExecutorIdle"
    /\ get_executor_id(item.data) = e.state.by_executor_id

(* executor.rs 203-239: the preemption check at the head of update_tasks *)
ExecCheckPreemption(e, item) ==
    IF ExecIsPreempted(e, item)
    THEN set_new_state(e, ExecPreempted(item.data.executor_id, e.state.k), item.time_pair)
    ELSE IF ExecIsResumed(e, item)
    THEN set_new_state(e, PrevStateInto(e.state.prev_state), item.time_pair)
    ELSE e


(* ExecEnsureTask without the comparison of the executor ids *)
ExecEnsureTask_AnyExecutor(e, item) ==
    IF \E task_id \in get_task_id(item.data) : find_task_by_id(e, task_id) = {}
    THEN [e EXCEPT !.tasks =
              Append(@, TaskTraceInfoNew(item.data.task_id, e.executor_id, e.core_id,
                                         item.time_pair))]
    ELSE e

(* ExecEnsureTask that does not look the task up before creating it *)
ExecEnsureTask_NoLookup(e, item) ==
    IF /\ get_executor_id(item.data) = e.executor_id
       /\ get_task_id(item.data) # {}
    THEN [e EXCEPT !.tasks =
              Append(@, TaskTraceInfoNew(item.data.task_id, e.executor_id, e.core_id,
                                         item.time_pair))]
    ELSE e

(* executor.rs 241-256: create the task the item names when this executor lacks it *)
ExecEnsureTask(e, item) ==
    IF /\ get_executor_id(item.data) = e.executor_id
       /\ \E task_id \in get_task_id(item.data) : find_task_by_id(e, task_id) = {}
    THEN [e EXCEPT !.tasks =
              Append(@, TaskTraceInfoNew(item.data.task_id, e.executor_id, e.core_id,
                                         item.time_pair))]
    ELSE e


(* update_tasks that forgets the tasks that have ended *)
update_tasks_DropsEnded(e, item) ==
    LET checked == ExecCheckPreemption(e, item)
        listed == ExecEnsureTask(checked, item)
        moved == [i \in 1..Len(listed.tasks) |-> TaskUpdate(listed.tasks[i], item)]
    IN  [listed EXCEPT !.tasks = SelectSeq(moved, LAMBDA t : t.state # TaskEnded)]

(* ExecutorTraceInfo::update_tasks *)
update_tasks(e, item) ==
    LET checked == ExecCheckPreemption(e, item)
        listed == ExecEnsureTask(checked, item)
    IN  [listed EXCEPT !.tasks = [i \in 1..Len(@) |-> TaskUpdate(@[i], item)]]

(* ExecTransition that also takes ExecutorIdle while Polling *)
ExecTransition_IdleFromPolling(state, kind) ==
    CASE state = ExecIdle /\ kind = "ExecutorPollStart" -> ExecScheduling
      [] state = ExecScheduling /\ kind = "TaskExecBegin" -> ExecPolling
      [] state \in {ExecScheduling, ExecPolling} /\ kind = "ExecutorIdle" -> ExecIdle
      [] state = ExecPolling /\ kind = "TaskExecEnd" -> ExecScheduling
      [] OTHER -> state

(* ExecTransition that starts polling straight from Idle *)
ExecTransition_PollsFromIdle(state, kind) ==
    CASE state = ExecIdle /\ kind = "ExecutorPollStart" -> ExecScheduling
      [] state \in {ExecIdle, ExecScheduling} /\ kind = "TaskExecBegin" -> ExecPolling
      [] state = ExecScheduling /\ kind = "ExecutorIdle" -> ExecIdle
      [] state = ExecPolling /\ kind = "TaskExecEnd" -> ExecScheduling
      [] OTHER -> state

(* ExecTransition that lets a Preempted executor go Idle on its own ExecutorIdle *)
ExecTransition_IdleWhilePreempted(state, kind) ==
    CASE state = ExecIdle /\ kind = "ExecutorPollStart" -> ExecScheduling
      [] state = ExecScheduling /\ kind = "TaskExecBegin" -> ExecPolling
      [] state = ExecScheduling /\ kind = "ExecutorIdle" -> ExecIdle
      [] state = ExecPolling /\ kind = "TaskExecEnd" -> ExecScheduling
      [] state.k = "Preempted" /\ kind = "ExecutorIdle" -> ExecIdle
      [] OTHER -> state

(* executor.rs 273-294: the match on self.state; the state the item leads to *)
ExecTransition(state, kind) ==
    CASE state = ExecIdle /\ kind = "ExecutorPollStart" -> ExecScheduling
      [] state = ExecScheduling /\ kind = "TaskExecBegin" -> ExecPolling
      [] state = ExecScheduling /\ kind = "ExecutorIdle" -> ExecIdle
      [] state = ExecPolling /\ kind = "TaskExecEnd" -> ExecScheduling
      [] OTHER -> state


(* ExecUpdate that records the core of every item addressed to the executor *)
ExecUpdate_TakesCore(e, item) ==
    LET e1 == update_tasks(e, item)
    IN  IF get_executor_id(item.data) = e1.executor_id
        THEN LET moved == set_new_state(e1, ExecTransition(e1.state, item.data.kind),
                                        item.time_pair)
             IN  [moved EXCEPT !.state_history = DrainHistory(@, item.time_pair.pc),
                               !.core_id = item.core_id]
        ELSE e1

(* ExecUpdate that runs the eviction on every item, its own or not *)
ExecUpdate_EvictsAlways(e, item) ==
    LET e1 == update_tasks(e, item)
        moved == IF get_executor_id(item.data) = e1.executor_id
                 THEN set_new_state(e1, ExecTransition(e1.state, item.data.kind),
                                    item.time_pair)
                 ELSE e1
    IN  [moved EXCEPT !.state_history = DrainHistory(@, item.time_pair.pc)]

(* ExecutorTraceInfo::update *)
ExecUpdate(e, item) ==
    LET e1 == update_tasks(e, item)
    IN  IF get_executor_id(item.data) = e1.executor_id
        THEN LET moved == set_new_state(e1, ExecTransition(e1.state, item.data.kind),
                                        item.time_pair)
             IN  [moved EXCEPT !.state_history = DrainHistory(@, item.time_pair.pc)]
        ELSE e1

(***************************************************************************)
(* instance.rs                                                             *)
(***************************************************************************)
find_executor_by_id_locked(execs, executor_id) ==
    {i \in 1..Len(execs) : execs[i].executor_id = executor_id}


(* InstanceUpdate that does not deliver the item to the executor it creates *)
InstanceUpdate_SkipsCreated(execs, item) ==
    LET known == find_executor_by_id_locked(execs, get_executor_id(item.data)) # {}
        old == [i \in 1..Len(execs) |-> ExecUpdate(execs[i], item)]
    IN  IF known THEN old
        ELSE Append(old, ExecutorTraceInfoNew(get_executor_id(item.data),
                                              item.core_id, item.time_pair))

(* TracingInstance::update *)
InstanceUpdate(execs, item) ==
    LET all == IF find_executor_by_id_locked(execs, get_executor_id(item.data)) = {}
               THEN Append(execs, ExecutorTraceInfoNew(get_executor_id(item.data),
                                                       item.core_id, item.time_pair))
               ELSE execs
    IN  [i \in 1..Len(all) |-> ExecUpdate(all[i], item)]

(***************************************************************************)
(* trace_data.rs: TraceItem::parse_from_line and TraceItemType::from_parts *)
(*                                                                         *)
(* A line is a sequence of characters.  The characters the parser tells    *)
(* apart are the brackets, the comma, white space, the sign and the        *)
(* digits; a word the parser only compares as a whole (an event name, any  *)
(* other text) is one element of the sequence.  A number is kept as its    *)
(* numeral, the sequence of its digits without leading zeros, so that the  *)
(* 32 and 64 bit ranges are compared exactly.                              *)
(***************************************************************************)
DigitChars == {"0", "1", "2", "3", "4", "5", "6", "7", "8", "9"}

U32_MAX == <<"4", "2", "9", "4", "9", "6", "7", "2", "9", "5">>
U64_MAX == <<"1", "8", "4", "4", "6", "7", "4", "4", "0", "7",
             "3", "7", "0", "9", "5", "5", "1", "6", "1", "5">>

NoResult == [tag |-> "None"]
Ok(item) == [tag |-> "Ok", item |-> item]
Err(kind) == [tag |-> "Err", kind |-> kind]
(* the call does not return: the thread that made it unwinds *)
Panic == [tag |-> "Panic"]

(* str::find(char): the index of the first occurrence, as an Option *)
find(s, ch) ==
    IF \E i \in 1..Len(s) : s[i] = ch
    THEN {CHOOSE i \in 1..Len(s) : s[i] = ch /\ \A j \in 1..(i - 1) : s[j] # ch}
    ELSE {}

(* str::split(','): the pieces between the commas, at least one piece *)
RECURSIVE split(_)
split(s) ==
    IF find(s, ",") = {} THEN <<s>>
    ELSE LET i == CHOOSE i \in find(s, ",") : TRUE
         IN  <<SubSeq(s, 1, i - 1)>> \o split(SubSeq(s, i + 1, Len(s)))

(* str::trim *)
RECURSIVE trim(_)
trim(s) ==
    IF s = << >> THEN s
    ELSE IF Head(s) = " " THEN trim(Tail(s))
    ELSE IF s[Len(s)] = " " THEN trim(SubSeq(s, 1, Len(s) - 1))
    ELSE s

RECURSIVE StripZeros(_)
StripZeros(digits) ==
    IF Len(digits) > 1 /\ Head(digits) = "0" THEN StripZeros(Tail(digits)) ELSE digits

DigitValue(ch) ==
    CASE ch = "0" -> 0 [] ch = "1" -> 1 [] ch = "2" -> 2 [] ch = "3" -> 3
      [] ch = "4" -> 4 [] ch = "5" -> 5 [] ch = "6" -> 6 [] ch = "7" -> 7
      [] ch = "8" -> 8 [] ch = "9" -> 9

(* a <= b for numerals without leading zeros *)
RECURSIVE NumeralLeq(_, _)
NumeralLeq(a, b) ==
    IF Len(a) # Len(b) THEN Len(a) < Len(b)
    ELSE IF a = << >> THEN TRUE
    ELSE IF Head(a) # Head(b) THEN DigitValue(Head(a)) < DigitValue(Head(b))
    ELSE NumeralLeq(Tail(a), Tail(b))

(* <u32 / u64 as FromStr>::from_str: an optional '+', then at least one    *)
(* digit and nothing but digits, the value within the range; as an Option  *)
parse(s, max) ==
    LET digits == IF s # << >> /\ Head(s) = "+" THEN Tail(s) ELSE s
    IN  IF /\ digits # << >>
           /\ \A i \in 1..Len(digits) : digits[i] \in DigitChars
           /\ NumeralLeq(StripZeros(digits), max)
        THEN {StripZeros(digits)}
        ELSE {}

(* from_parts reporting a task event without a task id as an unknown name *)
from_parts_PayloadAsType(parts) ==
    IF Len(parts) < 2 THEN Err("InvalidFormat")
    ELSE LET event_type == trim(parts[1])
             executor_id == parse(trim(parts[2]), U32_MAX)
             task_id == IF Len(parts) > 2 THEN parse(trim(parts[3]), U32_MAX) ELSE {}
         IN  IF executor_id = {} THEN Err("InvalidExecutorId")
             ELSE IF Len(parts) > 2 /\ task_id = {} THEN Err("InvalidTaskId")
             ELSE IF Len(event_type) = 1 /\ event_type[1] \in ExecutorKinds
             THEN Ok([kind |-> event_type[1],
                      executor_id |-> CHOOSE n \in executor_id : TRUE])
             ELSE IF Len(event_type) = 1 /\ event_type[1] \in TaskKinds /\ task_id # {}
             THEN Ok([kind |-> event_type[1],
                      executor_id |-> CHOOSE n \in executor_id : TRUE,
                      task_id |-> CHOOSE n \in task_id : TRUE])
             ELSE Err("InvalidEventType")

(* TraceItemType::from_parts *)
from_parts(parts) ==
    IF Len(parts) < 2 THEN Err("InvalidFormat")
    ELSE LET event_type == trim(parts[1])
             executor_id == parse(trim(parts[2]), U32_MAX)
             task_id == IF Len(parts) > 2 THEN parse(trim(parts[3]), U32_MAX) ELSE {}
         IN  IF executor_id = {} THEN Err("InvalidExecutorId")
             ELSE IF Len(parts) > 2 /\ task_id = {} THEN Err("InvalidTaskId")
             ELSE IF Len(event_type) = 1 /\ event_type[1] \in ExecutorKinds
             THEN Ok([kind |-> event_type[1],
                      executor_id |-> CHOOSE n \in executor_id : TRUE])
             ELSE IF Len(event_type) = 1 /\ event_type[1] \in TaskKinds
             THEN IF task_id = {} THEN Err("InvalidEventPayload")
                  ELSE Ok([kind |-> event_type[1],
                           executor_id |-> CHOOSE n \in executor_id : TRUE,
                           task_id |-> CHOOSE n \in task_id : TRUE])
             ELSE Err("InvalidEventType")

(* TraceItem::parse_from_line.  With '[' at index i and ']' at index j the *)
(* content is &line[start..end] for start = i + 1 and end = j counted from *)
(* 0, a slice that panics when start > end.                                *)
parse_from_line(l, pc_timestamp) ==
    IF find(l, "[") = {} THEN Err("InvalidFormat")
    ELSE IF find(l, "]") = {} THEN Err("InvalidFormat")
    ELSE LET i == CHOOSE i \in find(l, "[") : TRUE
             j == CHOOSE j \in find(l, "]") : TRUE
         IN  IF i + 1 > j THEN Panic
             ELSE LET content == SubSeq(l, i + 1, j - 1)
                      parts == [k \in 1..Len(split(content)) |-> trim(split(content)[k])]
                  IN  IF Len(parts) < 4 THEN Err("InvalidFormat")
                      ELSE LET timestamp_micros == parse(parts[1], U64_MAX)
                               core_id == parse(parts[2], U32_MAX)
                               data == from_parts(SubSeq(parts, 3, Len(parts)))
                           IN  IF timestamp_micros = {} THEN Err("InvalidTimestamp")
                               ELSE IF core_id = {} THEN Err("InvalidCoreId")
                               ELSE IF data.tag = "Err" THEN data
                               ELSE Ok(TraceItem(
                                        TimePair(CHOOSE n \in timestamp_micros : TRUE,
                                                 pc_timestamp),
                                        CHOOSE n \in core_id : TRUE,
                                        data.item))

(***************************************************************************)
(* The items the writer thread can receive after the item `last`.          *)
(*                                                                         *)
(* Stamps.  The host stamp never goes back: main.rs stamps every line with *)
(* ComputerTime::now() in one thread and the channel keeps the order.  A   *)
(* regular item follows its predecessor by one tick of both clocks.  An    *)
(* irregular item follows a silence of GapDeltas on both clocks, or a      *)
(* device reset (device time restarts at 0, which is a regression whenever *)
(* the predecessor's device time was above 0).                             *)
(*                                                                         *)
(* Ids.  Executor ids are opaque keys, so an executor the registry does    *)
(* not know yet is named by the least id not yet in use.                   *)
(*                                                                         *)
(* Cores.  The code reads an item's core_id only when the item is an       *)
(* ExecutorPollStart (the two preemption checks) or creates an executor    *)
(* (the core it records); such an item may carry any core, except that the *)
(* first executor is put on core 0.  Every other item carries the core     *)
(* recorded for its executor.                                              *)
(***************************************************************************)
NoItem == [time_pair |-> TimePair(0, 0), core_id |-> 0,
           data |-> [kind |-> "None", executor_id |-> 0]]

RegularStamp(last) == TimePair(last.uc + 1, last.pc + 1)

IrregularStamps(last) ==
    {TimePair(last.uc + d, last.pc + d) : d \in GapDeltas}
    \cup {TimePair(0, last.pc + 1)}

StampsAfter(last, used) ==
    {RegularStamp(last)} \cup (IF used < MaxIrregular THEN IrregularStamps(last) ELSE {})

DataFor(execs) == {data \in TraceItemType : data.executor_id <= Len(execs) + 1}

CoresFor(execs, data) ==
    IF data.kind = "ExecutorPollStart"
       \/ find_executor_by_id_locked(execs, data.executor_id) = {}
    THEN IF execs = << >> THEN {0} ELSE CoreIds
    ELSE {execs[i].core_id : i \in find_executor_by_id_locked(execs, data.executor_id)}

ItemsAfter(stamps, execs) ==
    UNION {{TraceItem(time_pair, core_id, data) :
               time_pair \in stamps, core_id \in CoresFor(execs, data)} :
           data \in DataFor(execs)}

Free == "free"
Writer == "writer"

NoStats == [tag |-> "None"]

(* the threads as TracingInstance::new and App::new leave them: the writer *)
(* in recv(), every reader in its sleep, both channels open and empty      *)
(* main.rs 43-45: the stdout thread before its first line.  `lines` keeps  *)
(* the lines read so far and `logs` those passed on to the log channel.    *)
StdoutInit ==
    [pc |-> "run", lines |-> << >>, cargo_build_finished |-> FALSE,
     first_trace_item_received |-> FALSE, logs |-> << >>]

ThreadsInit ==
    /\ stdout = StdoutInit
    /\ stats = NoStats
    /\ chan = << >>
    /\ trace_tx = TRUE
    /\ sent = << >>
    /\ applied = << >>
    /\ writer = [pc |-> "recv", item |-> NoItem, i |-> 0]
    /\ mutex = Free
    /\ readers = [r \in Readers |-> [pc |-> "sleep", stats |-> NoStats]]
    /\ event_rx = TRUE

Init ==
    /\ executors = << >>
    /\ ev = NoItem
    /\ steps = 0
    /\ irregular = 0
    /\ regressed = FALSE
    /\ line = << >>
    /\ result = NoResult
    /\ ThreadsInit

(* update_from_trace_items: one received item is applied by TracingInstance::update *)
Update(item) ==
    /\ executors' = InstanceUpdate(executors, item)
    /\ ev' = item
    /\ steps' = steps + 1
    /\ irregular' = IF item.time_pair = RegularStamp(ev.time_pair)
                    THEN irregular ELSE irregular + 1
    /\ regressed' = (regressed \/ item.time_pair.uc < ev.time_pair.uc)
    /\ UNCHANGED <<parserVars, threadVars, stdout, stats>>

(* Items of any kind, regularly stamped: the state machines. *)
Next ==
    /\ steps < MaxEvents
    /\ \E item \in ItemsAfter({RegularStamp(ev.time_pair)}, executors) : Update(item)

Spec == Init /\ [][Next]_vars

(* Items of any kind, regularly or irregularly stamped: the histories and  *)
(* their eviction.                                                         *)
NextTimed ==
    /\ steps < MaxTimedEvents
    /\ \E item \in ItemsAfter(StampsAfter(ev.time_pair, irregular), executors) :
          Update(item)

SpecTimed == Init /\ [][NextTimed]_vars

(***************************************************************************)
(* The lifecycle scenario of one task: TaskNew, TaskReadyBegin,            *)
(* TaskExecBegin, TaskExecEnd for executor 1 and task 42, applied to the   *)
(* empty registry on one core with strictly increasing device time and any *)
(* host-time distance.                                                     *)
(***************************************************************************)
LifecycleKinds == <<"TaskNew", "TaskReadyBegin", "TaskExecBegin", "TaskExecEnd">>

LifecycleUcSteps == {1, 2}
LifecyclePcSteps == {0, 1, HISTORY_MAX_TIME_S + 1}

LifecycleItems(last, n) ==
    {TraceItem(TimePair(last.time_pair.uc + du, last.time_pair.pc + dp), core_id,
               [kind |-> LifecycleKinds[n], executor_id |-> 1, task_id |-> 42]) :
        du \in LifecycleUcSteps, dp \in LifecyclePcSteps,
        core_id \in IF n = 1 THEN CoreIds ELSE {last.core_id}}

NextLifecycle ==
    /\ steps < Len(LifecycleKinds)
    /\ \E item \in LifecycleItems(ev, steps + 1) : Update(item)

SpecLifecycle == Init /\ [][NextLifecycle]_vars

(***************************************************************************)
(* The lines handed to the parser (main.rs 66-71: every line of the        *)
(* program's output that carries the tracer's marks).  A line is some text *)
(* before, possibly an opening bracket, up to MaxFields fields separated   *)
(* by commas, possibly a closing bracket, and some text after; the text    *)
(* before and after may hold a bracket of its own.                         *)
(***************************************************************************)
FieldTexts ==
    {<<"1">>, <<" ", "4", "2">>, <<"ExecutorIdle">>, <<"TaskNew", " ">>}

TextsBefore == {<< >>, <<"x">>, <<"]">>, <<"[", "x", "]">>}
TextsAfter == {<< >>, <<"x", "[">>}

(* the host times the caller can hand over with a line *)
PcTimestamps == {1, 2}

RECURSIVE JoinFields(_)
JoinFields(fields) ==
    IF fields = << >> THEN << >>
    ELSE IF Len(fields) = 1 THEN fields[1]
    ELSE fields[1] \o <<",">> \o JoinFields(Tail(fields))

(* the lines with the given fields between the optional brackets *)
LinesOf(fields) ==
    {before \o open \o JoinFields(fields) \o close \o after :
        before \in TextsBefore, open \in {<< >>, <<"[">>},
        close \in {<< >>, <<"]">>}, after \in TextsAfter}

InitParse ==
    /\ executors = << >>
    /\ ev = NoItem
    /\ steps = 0
    /\ irregular = 0
    /\ regressed = FALSE
    /\ \E n \in 0..MaxFields :
          \E fields \in [1..n -> FieldTexts] : line \in LinesOf(fields)
    /\ result = NoResult
    /\ ThreadsInit

(* main.rs 70-71: the line is parsed with the host time of its receipt *)
ParseLine ==
    /\ result = NoResult
    /\ \E pc_timestamp \in PcTimestamps : result' = parse_from_line(line, pc_timestamp)
    /\ UNCHANGED <<registryVars, line, threadVars, stdout, stats>>

NextParse == ParseLine

SpecParse == InitParse /\ [][NextParse]_vars

(***************************************************************************)
(* The stdout thread of main.rs (43-103), one step per line it completes.  *)
(* A line is a sequence of tokens as above; the two markers of a trace     *)
(* line and the marker of the end of the build are one token each.         *)
(***************************************************************************)
TraceStart == "embassy executor tracer - "
TraceEnd == " - embassy executor tracer"
BuildFinished == "build-finished"

(* str::contains for a marker *)
contains(l, marker) == \E i \in 1..Len(l) : l[i] = marker

TraceLine(content) == <<TraceStart>> \o content \o <<TraceEnd>>

(* the lines the child process prints *)
PipelineLines ==
    {<<BuildFinished>>,
     <<"x">>,
     TraceLine(<<"[", "1", ",", "0", ",", "ExecutorIdle", ",", "1", "]">>),
     TraceLine(<<"[", "2", ",", "0", ",", "TaskNew", ",", "1", ",", " ", "4", "2", "]">>),
     TraceLine(<<"[", "1", ",", "x", "]">>),
     TraceLine(<<"]", "x", "[">>)}

(* main.rs 53-95.  ComputerTime::now() is counted in lines read. *)
StdoutLine(l) ==
    /\ stdout.pc = "run"
    /\ Len(stdout.lines) < MaxLines
    /\ LET read == [stdout EXCEPT !.lines = Append(@, l)]
           pc_timestamp == Len(stdout.lines) + 1
           parsed == parse_from_line(l, pc_timestamp)
       IN  IF ~stdout.cargo_build_finished
           THEN /\ stdout' = [read EXCEPT !.cargo_build_finished = contains(l, BuildFinished)]
                /\ UNCHANGED <<line, result, chan, sent, trace_tx>>
           ELSE IF contains(l, TraceStart) /\ contains(l, TraceEnd)
           THEN /\ line' = l
                /\ result' = parsed
                /\ IF parsed = Panic
                   THEN /\ stdout' = [read EXCEPT !.pc = "panicked"]
                        /\ trace_tx' = FALSE
                        /\ UNCHANGED <<chan, sent>>
                   ELSE /\ stdout' = [read EXCEPT !.first_trace_item_received = TRUE]
                        /\ IF parsed.tag = "Ok"
                           THEN /\ chan' = Append(chan, parsed.item)
                                /\ sent' = Append(sent, parsed.item)
                           ELSE UNCHANGED <<chan, sent>>
                        /\ UNCHANGED trace_tx
           ELSE /\ stdout' = IF stdout.first_trace_item_received
                             THEN [read EXCEPT !.logs = Append(@, l)]
                             ELSE read
                /\ UNCHANGED <<line, result, chan, sent, trace_tx>>
    /\ UNCHANGED <<registryVars, applied, writer, mutex, readers, event_rx, stats>>

(* main.rs 98-100: the child's output ends, the thread leaves its loop *)
StdoutEnd ==
    /\ stdout.pc = "run"
    /\ stdout' = [stdout EXCEPT !.pc = "done"]
    /\ trace_tx' = FALSE
    /\ UNCHANGED <<registryVars, parserVars, chan, sent, applied, writer, mutex, readers,
                   event_rx, stats>>

NextPipeline ==
    \/ \E l \in PipelineLines : StdoutLine(l)
    \/ StdoutEnd

SpecPipeline == Init /\ [][NextPipeline]_vars

(***************************************************************************)
(* The threads around the registry: the stdout thread of main.rs sends     *)
(* items on the trace channel, the thread of update_from_trace_items       *)
(* receives them and calls TracingInstance::update, and the threads of     *)
(* run_instance_stats_gatherer call TracingInstance::get_stats and send    *)
(* what it returns to the display.  update is taken step by step: the      *)
(* lock, the search and push, one executor of the loop at a time, and the  *)
(* return, which drops the guard.                                          *)
(***************************************************************************)
(* the kinds and the cores of the items sent while the threads are observed *)
SentKinds == {"ExecutorPollStart", "TaskReadyBegin"}
SentCores == {0}

(* the registry after update has been called with each of the items in turn *)
RECURSIVE RegistryAfter(_)
RegistryAfter(items) ==
    IF items = << >> THEN << >>
    ELSE InstanceUpdate(RegistryAfter(SubSeq(items, 1, Len(items) - 1)),
                        items[Len(items)])

LastSent == IF sent = << >> THEN NoItem ELSE sent[Len(sent)]

(* main.rs 74: trace_tx.send(item) *)
SendItem ==
    /\ trace_tx
    /\ Len(sent) < MaxSent
    /\ \E item \in ItemsAfter({RegularStamp(LastSent.time_pair)}, RegistryAfter(sent)) :
          /\ item.data.kind \in SentKinds
          /\ item.core_id \in SentCores
          /\ chan' = Append(chan, item)
          /\ sent' = Append(sent, item)
    /\ UNCHANGED <<registryVars, otherVars, trace_tx, applied, writer, mutex, readers,
                   event_rx>>

(* main.rs 98-100: the stdout thread ends and drops trace_tx *)
DropTraceTx ==
    /\ trace_tx
    /\ trace_tx' = FALSE
    /\ UNCHANGED <<registryVars, otherVars, chan, sent, applied, writer, mutex, readers,
                   event_rx>>

(* WriterRecv that takes the item queued last *)
WriterRecv_TakesLast ==
    /\ writer.pc = "recv"
    /\ chan # << >>
    /\ writer' = [pc |-> "lock", item |-> chan[Len(chan)], i |-> 0]
    /\ chan' = SubSeq(chan, 1, Len(chan) - 1)
    /\ UNCHANGED <<registryVars, otherVars, trace_tx, sent, applied, mutex, readers,
                   event_rx>>

(* instance.rs 20-24: recv() returns Ok(trace_item); update is called *)
WriterRecv ==
    /\ writer.pc = "recv"
    /\ chan # << >>
    /\ writer' = [pc |-> "lock", item |-> Head(chan), i |-> 0]
    /\ chan' = Tail(chan)
    /\ UNCHANGED <<registryVars, otherVars, trace_tx, sent, applied, mutex, readers,
                   event_rx>>

(* WriterRecv that stops at a disconnected channel with items still queued *)
WriterStop_DropsQueued ==
    /\ writer.pc = "recv"
    /\ ~trace_tx
    /\ writer' = [pc |-> "done", item |-> NoItem, i |-> 0]
    /\ UNCHANGED <<registryVars, otherVars, chan, trace_tx, sent, applied, mutex,
                   readers, event_rx>>

(* instance.rs 25-27: recv() returns Err, the channel is empty and         *)
(* disconnected; the thread ends                                           *)
WriterStop ==
    /\ writer.pc = "recv"
    /\ chan = << >>
    /\ ~trace_tx
    /\ writer' = [pc |-> "done", item |-> NoItem, i |-> 0]
    /\ UNCHANGED <<registryVars, otherVars, chan, trace_tx, sent, applied, mutex,
                   readers, event_rx>>

(* instance.rs 45: self.executors.lock() *)
WriterLock ==
    /\ writer.pc = "lock"
    /\ mutex = Free
    /\ mutex' = Writer
    /\ writer' = [writer EXCEPT !.pc = "create"]
    /\ UNCHANGED <<registryVars, otherVars, chan, trace_tx, sent, applied, readers,
                   event_rx>>

(* instance.rs 47-57: push a new executor when the id is not found *)
WriterCreate ==
    /\ writer.pc = "create"
    /\ executors' =
         IF find_executor_by_id_locked(executors, get_executor_id(writer.item.data)) = {}
         THEN Append(executors,
                     ExecutorTraceInfoNew(get_executor_id(writer.item.data),
                                          writer.item.core_id, writer.item.time_pair))
         ELSE executors
    /\ writer' = [writer EXCEPT !.pc = "update", !.i = 1]
    /\ UNCHANGED <<ev, steps, irregular, regressed, otherVars, chan, trace_tx, sent,
                   applied, mutex, readers, event_rx>>

(* instance.rs 60-62: one turn of the loop over executors.iter_mut() *)
WriterUpdateExecutor ==
    /\ writer.pc = "update"
    /\ writer.i <= Len(executors)
    /\ executors' = [executors EXCEPT ![writer.i] = ExecUpdate(@, writer.item)]
    /\ writer' = [writer EXCEPT !.i = @ + 1]
    /\ UNCHANGED <<ev, steps, irregular, regressed, otherVars, chan, trace_tx, sent,
                   applied, mutex, readers, event_rx>>

(* WriterReturn that leaves the mutex locked *)
WriterReturn_KeepsLock ==
    /\ writer.pc = "update"
    /\ writer.i > Len(executors)
    /\ applied' = Append(applied, writer.item)
    /\ ev' = writer.item
    /\ steps' = steps + 1
    /\ writer' = [pc |-> "recv", item |-> NoItem, i |-> 0]
    /\ UNCHANGED <<executors, irregular, regressed, otherVars, chan, trace_tx, sent,
                   mutex, readers, event_rx>>

(* instance.rs 74: update returns and the guard is dropped; back to recv() *)
WriterReturn ==
    /\ writer.pc = "update"
    /\ writer.i > Len(executors)
    /\ mutex' = Free
    /\ applied' = Append(applied, writer.item)
    /\ ev' = writer.item
    /\ steps' = steps + 1
    /\ writer' = [pc |-> "recv", item |-> NoItem, i |-> 0]
    /\ UNCHANGED <<executors, irregular, regressed, otherVars, chan, trace_tx, sent,
                   readers, event_rx>>

(* InstanceStats::from_executors.  tasks_count and executor_count are      *)
(* counted; core_stats is computed from the records and the clock, and is  *)
(* kept here as the records it is computed from.                           *)
RECURSIVE TasksCount(_)
TasksCount(execs) ==
    IF execs = << >> THEN 0 ELSE Len(Head(execs).tasks) + TasksCount(Tail(execs))

InstanceStats_from_executors(execs) ==
    [tag |-> "Stats",
     core_stats |-> execs,
     tasks_count |-> TasksCount(execs),
     executor_count |-> Len(execs)]

(* app.rs 230-232: the sleep ends and get_stats is called *)
ReaderWake(r) ==
    /\ readers[r].pc = "sleep"
    /\ readers' = [readers EXCEPT ![r].pc = "lock"]
    /\ UNCHANGED <<registryVars, otherVars, chan, trace_tx, sent, applied, writer, mutex,
                   event_rx>>

(* ReaderLock that does not wait for the mutex *)
ReaderLock_NoWait(r) ==
    /\ readers[r].pc = "lock"
    /\ mutex' = r
    /\ readers' = [readers EXCEPT ![r].pc = "stats"]
    /\ UNCHANGED <<registryVars, otherVars, chan, trace_tx, sent, applied, writer,
                   event_rx>>

(* instance.rs 78: self.executors.lock() *)
ReaderLock(r) ==
    /\ readers[r].pc = "lock"
    /\ mutex = Free
    /\ mutex' = r
    /\ readers' = [readers EXCEPT ![r].pc = "stats"]
    /\ UNCHANGED <<registryVars, otherVars, chan, trace_tx, sent, applied, writer,
                   event_rx>>

(* ReaderStats that returns with the mutex still locked *)
ReaderStats_KeepsLock(r) ==
    /\ readers[r].pc = "stats"
    /\ readers' = [readers EXCEPT ![r] =
                      [pc |-> "send", stats |-> InstanceStats_from_executors(executors)]]
    /\ UNCHANGED <<registryVars, otherVars, chan, trace_tx, sent, applied, writer, mutex,
                   event_rx>>

(* instance.rs 79-80: the statistics are computed, get_stats returns and   *)
(* the guard is dropped                                                    *)
ReaderStats(r) ==
    /\ readers[r].pc = "stats"
    /\ mutex' = Free
    /\ readers' = [readers EXCEPT ![r] =
                      [pc |-> "send", stats |-> InstanceStats_from_executors(executors)]]
    /\ UNCHANGED <<registryVars, otherVars, chan, trace_tx, sent, applied, writer,
                   event_rx>>

(* app.rs 233-237: send to the display; the thread ends when the display's *)
(* channel is closed, and sleeps again otherwise                           *)
ReaderSend(r) ==
    /\ readers[r].pc = "send"
    /\ readers' = [readers EXCEPT ![r] =
                      [pc |-> IF event_rx THEN "sleep" ELSE "done", stats |-> NoStats]]
    /\ UNCHANGED <<registryVars, otherVars, chan, trace_tx, sent, applied, writer, mutex,
                   event_rx>>

(* the display ends and drops the receiver of its event channel *)
DropEventRx ==
    /\ event_rx
    /\ event_rx' = FALSE
    /\ UNCHANGED <<registryVars, otherVars, chan, trace_tx, sent, applied, writer, mutex,
                   readers>>

WriterNext ==
    \/ WriterRecv
    \/ WriterStop
    \/ WriterLock
    \/ WriterCreate
    \/ WriterUpdateExecutor
    \/ WriterReturn

ReaderNext(r) ==
    \/ ReaderWake(r)
    \/ ReaderLock(r)
    \/ ReaderStats(r)
    \/ ReaderSend(r)

NextThreads ==
    \/ SendItem
    \/ DropTraceTx
    \/ DropEventRx
    \/ WriterNext
    \/ \E r \in Readers : ReaderNext(r)

SpecThreads == Init /\ [][NextThreads]_vars

(* the steps a thread takes on its own, without waiting for the mutex *)
WriterRuns ==
    \/ WriterRecv
    \/ WriterStop
    \/ WriterCreate
    \/ WriterUpdateExecutor
    \/ WriterReturn

ReaderRuns(r) ==
    \/ ReaderWake(r)
    \/ ReaderStats(r)
    \/ ReaderSend(r)

(* Scheduling.  A thread that can take a step of its own takes it          *)
(* eventually.  A thread blocked in lock() is woken whenever the mutex is  *)
(* released and gets it eventually, although others may take it in         *)
(* between: the acquisitions are strongly fair.                            *)
FairThreads ==
    /\ WF_vars(WriterRuns)
    /\ SF_vars(WriterLock)
    /\ \A r \in Readers :
          /\ WF_vars(ReaderRuns(r))
          /\ SF_vars(ReaderLock(r))

SpecThreadsFair == SpecThreads /\ FairThreads

(***************************************************************************)
(* The statistics (stats/*.rs and their helpers in task.rs, executor.rs).  *)
(* Both clocks count seconds.  A percentage, an f32 in the code, is kept   *)
(* exact as the fraction num / den.  The host clock, read by every         *)
(* diff_to_now, is the argument `now`: one get_stats call is one instant.   *)
(***************************************************************************)
(* ComputerTime::diff_to_now when duration_since_app_start() returns now *)
diff_to_now(pc, now) == saturating_sub(now, pc)

(* Duration::as_millis of a number of seconds *)
as_millis(d) == d * 1000

(* (part / whole) * 100.0 *)
Percent(part, whole) == [num |-> part * 100, den |-> whole]
ZeroPercent == [num |-> 0, den |-> 1]
PercentAdd(p, q) == [num |-> p.num * q.den + q.num * p.den, den |-> p.den * q.den]

(* Duration::MAX, above every duration of the model *)
DURATION_MAX == 2147483647

(* Duration / u32, exact to the nanosecond: [secs, nanos] *)
DurationDiv(sum, count) ==
    LET micros == (sum % count) * 1000000
    IN  [secs |-> sum \div count,
         nanos |-> (micros \div count) * 1000 + ((micros % count) * 1000) \div count]

(* TaskHistoryEntry::get_uc_duration *)
get_uc_duration(entry) == saturating_sub(entry.end_time.uc, entry.start_time.uc)

(* TaskTraceInfo::extrapolate_current_state_duration *)
task_extrapolate_current_state_duration(t, now) ==
    t.state_start_time.uc + diff_to_now(t.state_start_time.pc, now)

(* TaskTraceInfo::calc_current_state_duration *)
calc_current_state_duration(t, now) ==
    saturating_sub(task_extrapolate_current_state_duration(t, now), t.state_start_time.uc)

(* TaskTraceInfo::calc_total_history_duration *)
calc_total_history_duration(t, now) ==
    LET start_time_uc == IF t.state_history = << >> THEN 0
                         ELSE Head(t.state_history).start_time.uc
    IN  saturating_sub(task_extrapolate_current_state_duration(t, now), start_time_uc)

(* the filter, map and reduce of calc_total_history_state_duration *)
RECURSIVE SumStateDurations(_, _)
SumStateDurations(history, state) ==
    IF history = << >> THEN 0
    ELSE (IF Head(history).state = state THEN get_uc_duration(Head(history)) ELSE 0)
         + SumStateDurations(Tail(history), state)

(* TaskTraceInfo::calc_total_history_state_duration *)
calc_total_history_state_duration(t, state, now) ==
    SumStateDurations(t.state_history, state)
    + (IF t.state = state THEN calc_current_state_duration(t, now) ELSE 0)

(* the fold and reduce of calc_min_mean_max_count_waiting_time *)
RECURSIVE WaitingFold(_)
WaitingFold(history) ==
    IF history = << >>
    THEN [min |-> DURATION_MAX, max |-> 0, sum |-> 0, count |-> 0]
    ELSE LET acc == WaitingFold(Tail(history))
             duration == get_uc_duration(Head(history))
         IN  IF Head(history).state = TaskWaiting
             THEN [min |-> IF duration < acc.min THEN duration ELSE acc.min,
                   max |-> IF duration > acc.max THEN duration ELSE acc.max,
                   sum |-> acc.sum + duration,
                   count |-> acc.count + 1]
             ELSE acc

(* calc_min_mean_max_count_waiting_time taking the present state for a *)
(* wait whatever it is                                                 *)
calc_min_mean_max_count_waiting_time_AnyState(t, now) ==
    LET folded == WaitingFold(t.state_history)
        current_duration == calc_current_state_duration(t, now)
        counted == current_duration > folded.min
        sum == IF counted THEN folded.sum + current_duration ELSE folded.sum
        count == IF counted THEN folded.count + 1 ELSE folded.count
        max == IF current_duration > folded.max THEN current_duration ELSE folded.max
    IN  IF count = 0 THEN {}
        ELSE {[min |-> folded.min, mean |-> DurationDiv(sum, count), max |-> max,
               count |-> count]}

(* calc_min_mean_max_count_waiting_time counting the wait going on however *)
(* short it is                                                            *)
calc_min_mean_max_count_waiting_time_CountsAlways(t, now) ==
    LET folded == WaitingFold(t.state_history)
        current_duration == calc_current_state_duration(t, now)
        counted == t.state = TaskWaiting
        sum == IF counted THEN folded.sum + current_duration ELSE folded.sum
        count == IF counted THEN folded.count + 1 ELSE folded.count
        max == IF t.state = TaskWaiting /\ current_duration > folded.max
               THEN current_duration ELSE folded.max
    IN  IF count = 0 THEN {}
        ELSE {[min |-> folded.min, mean |-> DurationDiv(sum, count), max |-> max,
               count |-> count]}

(* calc_min_mean_max_count_waiting_time counting the wait going on when *)
(* the history holds no wait yet                                        *)
calc_min_mean_max_count_waiting_time_CountsFirstWait(t, now) ==
    LET folded == WaitingFold(t.state_history)
        current_duration == calc_current_state_duration(t, now)
        counted == /\ t.state = TaskWaiting
                   /\ (folded.count = 0 \/ current_duration > folded.min)
        sum == IF counted THEN folded.sum + current_duration ELSE folded.sum
        count == IF counted THEN folded.count + 1 ELSE folded.count
        max == IF t.state = TaskWaiting /\ current_duration > folded.max
               THEN current_duration ELSE folded.max
    IN  IF count = 0 THEN {}
        ELSE {[min |-> IF folded.count = 0 THEN current_duration ELSE folded.min,
               mean |-> DurationDiv(sum, count), max |-> max, count |-> count]}

(* TaskTraceInfo::calc_min_mean_max_count_waiting_time: None is {} *)
calc_min_mean_max_count_waiting_time(t, now) ==
    LET folded == WaitingFold(t.state_history)
        current_duration == calc_current_state_duration(t, now)
        counted == t.state = TaskWaiting /\ current_duration > folded.min
        sum == IF counted THEN folded.sum + current_duration ELSE folded.sum
        count == IF counted THEN folded.count + 1 ELSE folded.count
        max == IF t.state = TaskWaiting /\ current_duration > folded.max
               THEN current_duration ELSE folded.max
    IN  IF count = 0 THEN {}
        ELSE {[min |-> folded.min, mean |-> DurationDiv(sum, count), max |-> max,
               count |-> count]}

(* TaskStats::from_task *)
TaskStats_from_task(t, now) ==
    LET total_time == calc_total_history_duration(t, now)
        running_time == calc_total_history_state_duration(t, TaskRunning, now)
        waiting == calc_min_mean_max_count_waiting_time(t, now)
        found == CHOOSE w \in waiting : TRUE
    IN  [task_id |-> t.task_id,
         cpu_utilization_percent |->
             IF as_millis(total_time) > 0 THEN Percent(running_time, total_time)
             ELSE ZeroPercent,
         min_waiting_time |-> IF waiting = {} THEN 0 ELSE found.min,
         max_waiting_time |-> IF waiting = {} THEN 0 ELSE found.max,
         avg_waiting_time |-> IF waiting = {} THEN [secs |-> 0, nanos |-> 0]
                              ELSE found.mean,
         count_waiting_time |-> IF waiting = {} THEN 0 ELSE found.count]

(* ExecutorTraceInfo::extrapolate_current_state_duration *)
executor_extrapolate_current_state_duration(e, now) ==
    e.state_start_time.uc + diff_to_now(e.state_start_time.pc, now)

ExecActive(state) == state.k \in {"Scheduling", "Polling"}

(* the loop of calculate_cpu_utilization: [total, active] of the history *)
RECURSIVE SumPcDurations(_)
SumPcDurations(history) ==
    IF history = << >> THEN [total |-> 0, active |-> 0]
    ELSE LET rest == SumPcDurations(Tail(history))
             duration_s == saturating_sub(Head(history).end_time.pc,
                                          Head(history).start_time.pc)
         IN  [total |-> rest.total + duration_s,
              active |-> rest.active
                         + (IF ExecActive(Head(history).state) THEN duration_s ELSE 0)]

(* calculate_cpu_utilization dividing by the time of the history alone *)
calculate_cpu_utilization_HistoryTotal(e, now) ==
    LET past == SumPcDurations(e.state_history)
        estimated_duration ==
            saturating_sub(executor_extrapolate_current_state_duration(e, now),
                           e.state_start_time.uc)
        active_time_s == past.active
                         + (IF ExecActive(e.state) THEN estimated_duration ELSE 0)
    IN  IF past.total > 0 THEN Percent(active_time_s, past.total) ELSE ZeroPercent

(* ExecutorTraceInfo::calculate_cpu_utilization *)
calculate_cpu_utilization(e, now) ==
    LET past == SumPcDurations(e.state_history)
        estimated_duration ==
            saturating_sub(executor_extrapolate_current_state_duration(e, now),
                           e.state_start_time.uc)
        total_time_s == past.total + estimated_duration
        active_time_s == past.active
                         + (IF ExecActive(e.state) THEN estimated_duration ELSE 0)
    IN  IF total_time_s > 0 THEN Percent(active_time_s, total_time_s) ELSE ZeroPercent

(* ExecutorStats::from_executor *)
ExecutorStats_from_executor(e, now) ==
    [executor_id |-> e.executor_id,
     tasks |-> [j \in 1..Len(e.tasks) |-> TaskStats_from_task(e.tasks[j], now)],
     cpu_utilization_percent |-> calculate_cpu_utilization(e, now)]

RECURSIVE PercentSum(_)
PercentSum(stats_list) ==
    IF stats_list = << >> THEN ZeroPercent
    ELSE PercentAdd(Head(stats_list).cpu_utilization_percent, PercentSum(Tail(stats_list)))

(* CoreStats::from_executor_list_on_core *)
CoreStats_from_executor_list_on_core(core_id, execs, now) ==
    LET on_core == SelectSeq(execs, LAMBDA e : e.core_id = core_id)
        executor_stats ==
            [i \in 1..Len(on_core) |-> ExecutorStats_from_executor(on_core[i], now)]
    IN  [core_id |-> core_id,
         executors |-> executor_stats,
         cpu_utilization_percent |-> PercentSum(executor_stats)]

(* CoreStats::from_executor_list: one entry per core in use, by core id *)
RECURSIVE CoreStats_sorted(_, _, _)
CoreStats_sorted(cores, execs, now) ==
    IF cores = {} THEN << >>
    ELSE LET least == CHOOSE c \in cores : \A d \in cores : c <= d
         IN  <<CoreStats_from_executor_list_on_core(least, execs, now)>>
             \o CoreStats_sorted(cores \ {least}, execs, now)

CoreStats_from_executor_list(execs, now) ==
    CoreStats_sorted({execs[i].core_id : i \in 1..Len(execs)}, execs, now)

(* TracingInstance::get_stats at host time `now` *)
get_stats(execs, now) ==
    [tag |-> "Stats",
     now |-> now,
     core_stats |-> CoreStats_from_executor_list(execs, now),
     tasks_count |-> TasksCount(execs),
     executor_count |-> Len(execs)]

(* how long after the last item the statistics are taken *)
StatsDelays == {0, 1, 2}

(* app.rs 232: the display takes the statistics of the registry *)
GetStats(delays) ==
    /\ stats = NoStats
    /\ \E d \in delays : stats' = get_stats(executors, ev.time_pair.pc + d)
    /\ UNCHANGED <<registryVars, parserVars, threadVars, stdout>>

(* Items of any kind, regularly or irregularly stamped, and one reading of *)
(* the statistics, after which the behaviour ends.                         *)
NextStats ==
    \/ /\ stats = NoStats
       /\ steps < MaxStatsEvents
       /\ \E item \in ItemsAfter(StampsAfter(ev.time_pair, irregular), executors) :
             Update(item)
    \/ GetStats(StatsDelays)

SpecStats == Init /\ [][NextStats]_vars

(* One task of one executor waiting, running and idling in turn, the       *)
(* device time advancing by WaitTicks while it waits; the statistics are   *)
(* taken once.                                                             *)
WaitingKinds == <<"TaskReadyBegin", "TaskExecBegin", "TaskExecEnd">>
WaitTicks == {5, 10, 20}
WaitingDelays == {0, 3, 7, 25}

WaitingItems(last, n) ==
    LET kind == WaitingKinds[(n % 3) + 1]
    IN  {TraceItem(TimePair(last.time_pair.uc + du, last.time_pair.pc + 1), 0,
                   [kind |-> kind, executor_id |-> 1, task_id |-> 42]) :
            du \in IF kind = "TaskExecBegin" THEN WaitTicks ELSE {1}}

NextWaiting ==
    \/ /\ stats = NoStats
       /\ steps < 3 * MaxWaits
       /\ \E item \in WaitingItems(ev, steps) : Update(item)
    \/ GetStats(WaitingDelays)

SpecWaiting == Init /\ [][NextWaiting]_vars

(* One task of one executor receiving items of any task kind, a second or  *)
(* more than a window apart (the device clock in step with the host's);    *)
(* the statistics are taken once.                                          *)
TrackedSteps == {1, HISTORY_MAX_TIME_S + 1}

TrackedItems(last) ==
    {TraceItem(TimePair(last.time_pair.uc + d, last.time_pair.pc + d), 0,
               [kind |-> kind, executor_id |-> 1, task_id |-> 42]) :
        d \in TrackedSteps, kind \in TaskKinds}

NextTracked ==
    \/ /\ stats = NoStats
       /\ steps < MaxTracked
       /\ \E item \in TrackedItems(ev) : Update(item)
    \/ GetStats(StatsDelays)

SpecTracked == Init /\ [][NextTracked]_vars

(***************************************************************************)
(* Vocabulary of the properties.                                           *)
(***************************************************************************)
(* positions <<i, j>> of the task records of a registry *)
TaskPositions(execs) ==
    UNION {{<<i, j>> : j \in 1..Len(execs[i].tasks)} : i \in 1..Len(execs)}

TaskAt(execs, p) == execs[p[1]].tasks[p[2]]

(* the item carries the task's executor id and task id *)
AddressedTo(t, item) ==
    /\ item.data.kind \in TaskKinds
    /\ item.data.executor_id = t.executor_id
    /\ item.data.task_id = t.task_id

Last(history) == history[Len(history)]

(* the record's latest history entry says it left `state` at the last item *)
JustLeft(r, state) ==
    /\ r.state_history # << >>
    /\ Last(r.state_history).state = state
    /\ Last(r.state_history).end_time = ev.time_pair
    /\ r.state_start_time = ev.time_pair

(***************************************************************************)
(* C1.  An item addressed to a task (the task's executor id and task id)   *)
(* changes the task's state only along the six listed transitions; every   *)
(* other (state, item) pair leaves the state as it is; and no item at all  *)
(* changes the state of a task that is Ended.                              *)
(***************************************************************************)
C1_Listed(state, kind) ==
    IF state = TaskSpawned /\ kind = "TaskReadyBegin" THEN TaskWaiting
    ELSE IF state = TaskWaiting /\ kind = "TaskExecBegin" THEN TaskRunning
    ELSE IF state = TaskRunning /\ kind = "TaskExecEnd" THEN TaskIdle
    ELSE IF state = TaskRunning /\ kind = "TaskReadyBegin" THEN TaskWaiting
    ELSE IF state = TaskRunning /\ kind = "TaskEnd" THEN TaskEnded
    ELSE IF state = TaskIdle /\ kind = "TaskReadyBegin" THEN TaskWaiting
    ELSE state

C2_Listed(state, kind) ==
    IF state = ExecIdle /\ kind = "ExecutorPollStart" THEN ExecScheduling
    ELSE IF state = ExecScheduling /\ kind = "TaskExecBegin" THEN ExecPolling
    ELSE IF state = ExecScheduling /\ kind = "ExecutorIdle" THEN ExecIdle
    ELSE IF state = ExecPolling /\ kind = "TaskExecEnd" THEN ExecScheduling
    ELSE state

C2_ExecutorTransitionTable ==
    [][\A i \in 1..Len(executors) :
          LET e == executors[i]
              e2 == executors'[i]
          IN  ev'.data.executor_id = e.executor_id
                  => e2.state = C2_Listed(e.state, ev'.data.kind)]_vars

(* a Preempted executor has just been handed an item of its own, and it    *)
(* has been Preempted since an earlier item                                *)
C2_Witness ==
    \E i \in 1..Len(executors) :
        /\ executors[i].state.k = "Preempted"
        /\ ev.data.executor_id = executors[i].executor_id
        /\ executors[i].state_start_time # ev.time_pair

(***************************************************************************)
(* C3.  In the lifecycle scenario task 42 is Spawned, Waiting, Running and *)
(* Idle after the first, second, third and fourth item.  As stated, the    *)
(* claim also has executor 1 be Idle, Scheduling, Polling and Scheduling   *)
(* after these items (C3_Original); the scenario holds no                  *)
(* ExecutorPollStart, so executor 1 is Idle after each of them and its     *)
(* history stays empty (C3_Lifecycle).                                     *)
(***************************************************************************)
C3_TaskStates == <<TaskSpawned, TaskWaiting, TaskRunning, TaskIdle>>
C3_ClaimedExecutorStates == <<ExecIdle, ExecScheduling, ExecPolling, ExecScheduling>>

C3_OneExecutorOneTask ==
    /\ Len(executors) = 1
    /\ executors[1].executor_id = 1
    /\ Len(executors[1].tasks) = 1
    /\ executors[1].tasks[1].task_id = 42

C3_Original ==
    steps >= 1 =>
        /\ C3_OneExecutorOneTask
        /\ executors[1].tasks[1].state = C3_TaskStates[steps]
        /\ executors[1].state = C3_ClaimedExecutorStates[steps]

C3_Lifecycle ==
    steps >= 1 =>
        /\ C3_OneExecutorOneTask
        /\ executors[1].tasks[1].state = C3_TaskStates[steps]
        /\ executors[1].state = ExecIdle
        /\ executors[1].state_history = << >>

(* the whole scenario has been applied *)
C3_Witness ==
    /\ steps = Len(LifecycleKinds)
    /\ ev.data = [kind |-> "TaskExecEnd", executor_id |-> 1, task_id |-> 42]
    /\ executors[1].tasks[1].state = TaskIdle
    /\ JustLeft(executors[1].tasks[1], TaskRunning)

(***************************************************************************)
(* C4.  An executor A that is Scheduling or Polling and sees               *)
(* ExecutorPollStart of another executor B on A's core becomes             *)
(* Preempted{B, the state it was in}; ExecutorIdle{B} puts a Preempted{B,  *)
(* prev} executor back into prev; ExecutorIdle of any other executor       *)
(* leaves it Preempted with the same B, prev and state start (and, unless  *)
(* the item is A's own, the same history); ExecutorPollStart of another    *)
(* executor on a different core does not preempt A.                        *)
(***************************************************************************)
C4_ExecutorPreemption ==
    [][\A i \in 1..Len(executors) :
          LET a == executors[i]
              a2 == executors'[i]
              kind == ev'.data.kind
              x == ev'.data.executor_id
          IN  /\ (/\ a.state \in {ExecScheduling, ExecPolling}
                  /\ kind = "ExecutorPollStart" /\ x # a.executor_id
                  /\ ev'.core_id = a.core_id)
                 => a2.state = [k |-> "Preempted", by_executor_id |-> x,
                                prev_state |-> a.state.k]
              /\ (/\ a.state.k = "Preempted"
                  /\ kind = "ExecutorIdle" /\ x = a.state.by_executor_id)
                 => a2.state = [k |-> a.state.prev_state]
              /\ (/\ a.state.k = "Preempted"
                  /\ kind = "ExecutorIdle" /\ x # a.state.by_executor_id)
                 => /\ a2.state = a.state
                    /\ a2.state_start_time = a.state_start_time
                    /\ x # a.executor_id => a2.state_history = a.state_history
              /\ (/\ a.state \in {ExecScheduling, ExecPolling}
                  /\ kind = "ExecutorPollStart" /\ x # a.executor_id
                  /\ ev'.core_id # a.core_id)
                 => a2.state = a.state]_vars

(* an executor preempted while Polling has just been resumed into Polling  *)
(* by the ExecutorIdle of its preemptor                                    *)
C4_Witness ==
    \E i \in 1..Len(executors) :
        LET a == executors[i]
        IN  /\ ev.data.kind = "ExecutorIdle"
            /\ ev.data.executor_id # a.executor_id
            /\ a.state = ExecPolling
            /\ JustLeft(a, ExecPreempted(ev.data.executor_id, "Polling"))

(***************************************************************************)
(* C5.  Through the registry, a Running task of executor A on core c that  *)
(* sees ExecutorPollStart{X}, X # A, on core c becomes Preempted{X}; an    *)
(* ExecutorPollStart on another core or of A itself leaves it Running; and *)
(* a task is Preempted after an item only if it was Running or already     *)
(* Preempted before it (a task the item created is never Preempted).       *)
(***************************************************************************)
C5_TaskPreemption ==
    [][/\ \A p \in TaskPositions(executors) :
             LET t == TaskAt(executors, p)
                 t2 == TaskAt(executors', p)
                 x == ev'.data.executor_id
             IN  /\ (/\ t.state = TaskRunning /\ ev'.data.kind = "ExecutorPollStart"
                     /\ x # t.executor_id /\ ev'.core_id = t.core_id)
                    => t2.state = [k |-> "Preempted", by_executor_id |-> x]
                 /\ (/\ t.state = TaskRunning /\ ev'.data.kind = "ExecutorPollStart"
                     /\ (x = t.executor_id \/ ev'.core_id # t.core_id))
                    => t2.state = TaskRunning
                 /\ t.state.k \notin {"Running", "Preempted"} => t2.state.k # "Preempted"
       /\ \A p \in TaskPositions(executors') \ TaskPositions(executors) :
             TaskAt(executors', p).state.k # "Preempted"]_vars

(* a task has just been preempted by the ExecutorPollStart of another      *)
(* executor, which names neither the task nor its executor                 *)
C5_Witness ==
    \E p \in TaskPositions(executors) :
        LET t == TaskAt(executors, p)
        IN  /\ ev.data.kind = "ExecutorPollStart"
            /\ ev.data.executor_id # t.executor_id
            /\ ev.core_id = t.core_id
            /\ t.state = TaskPreempted(ev.data.executor_id)
            /\ JustLeft(t, TaskRunning)

(***************************************************************************)
(* C6.  A task that is Preempted{X} is Running after an item exactly when  *)
(* the item is ExecutorIdle{X}; after every other item it is still         *)
(* Preempted{X}.                                                           *)
(***************************************************************************)
C6_TaskResume ==
    [][\A p \in TaskPositions(executors) :
          LET t == TaskAt(executors, p)
              t2 == TaskAt(executors', p)
              resumes == /\ ev'.data.kind = "ExecutorIdle"
                         /\ ev'.data.executor_id = t.state.by_executor_id
          IN  t.state.k = "Preempted"
                  => /\ resumes => t2.state = TaskRunning
                     /\ ~resumes => t2.state = t.state]_vars

(* a Preempted task has just been resumed by the ExecutorIdle of its preemptor *)
C6_Witness ==
    \E p \in TaskPositions(executors) :
        LET t == TaskAt(executors, p)
        IN  /\ ev.data.kind = "ExecutorIdle"
            /\ t.state = TaskRunning
            /\ JustLeft(t, TaskPreempted(ev.data.executor_id))

(***************************************************************************)
(* C7.  As stated: every task's state_start_time is the end of the last    *)
(* entry of its history, or created_at when the history is empty           *)
(* (C7_Original).  Eviction can empty the history of a task that has       *)
(* already changed state, and then state_start_time is the time of its     *)
(* last transition.  What holds (C7_StateStart): state_start_time is the   *)
(* end of the last entry whenever the history is not empty, and it is      *)
(* created_at, with an empty history, as long as the task is Spawned.      *)
(***************************************************************************)
C7_Original ==
    \A p \in TaskPositions(executors) :
        LET t == TaskAt(executors, p)
        IN  t.state_start_time = IF t.state_history = << >>
                                 THEN t.created_at
                                 ELSE Last(t.state_history).end_time

C7_StateStart ==
    \A p \in TaskPositions(executors) :
        LET t == TaskAt(executors, p)
        IN  /\ t.state_history # << >>
                => t.state_start_time = Last(t.state_history).end_time
            /\ t.state = TaskSpawned
                => t.state_start_time = t.created_at /\ t.state_history = << >>

(* the eviction pass has removed the front of a task's history and left    *)
(* the rest: the oldest entry kept is not the task's first state           *)
C7_Witness ==
    \E p \in TaskPositions(executors) :
        LET t == TaskAt(executors, p)
        IN  /\ t.state_history # << >>
            /\ t.state_history[1].state # TaskSpawned
            /\ AddressedTo(t, ev)
            /\ t.state_start_time = Last(t.state_history).end_time

(***************************************************************************)
(* C8.  No two distinct executors with the same core_id are Scheduling or  *)
(* Polling at the same time.                                               *)
(***************************************************************************)
C8_Active(e) == e.state \in {ExecScheduling, ExecPolling}

C8_OneActivePerCore ==
    \A i, j \in 1..Len(executors) :
        (i # j /\ executors[i].core_id = executors[j].core_id)
            => ~(C8_Active(executors[i]) /\ C8_Active(executors[j]))

(***************************************************************************)
(* C9.  Once the registry has applied an item whose host time exceeds the  *)
(* end host time of a history entry by more than the window, that entry is *)
(* in no history, of a task or of an executor, addressed by the item or    *)
(* not.  (Host stamps never go back, so it is enough to compare with the   *)
(* item applied last.)                                                     *)
(***************************************************************************)
C9_Fresh(history) ==
    \A n \in 1..Len(history) :
        ev.time_pair.pc - history[n].end_time.pc <= HISTORY_MAX_TIME_S

C9_NoEntryOlderThanWindow ==
    /\ \A i \in 1..Len(executors) : C9_Fresh(executors[i].state_history)
    /\ \A p \in TaskPositions(executors) : C9_Fresh(TaskAt(executors, p).state_history)

(***************************************************************************)
(* C10.  As stated: in every history every entry has start <= end and the  *)
(* starts and the ends do not decrease from front to back, in host time    *)
(* and in device time (C10_Original).  Device time is what the items       *)
(* carry, and it can go back.  What holds (C10_Ordered): the host times    *)
(* are ordered so in every history, and the device times are as long as no *)
(* item carried a device time below its predecessor's.                     *)
(***************************************************************************)
C10_Histories ==
    {executors[i].state_history : i \in 1..Len(executors)}
    \cup {TaskAt(executors, p).state_history : p \in TaskPositions(executors)}

C10_HostOrdered(h) ==
    /\ \A n \in 1..Len(h) : h[n].start_time.pc <= h[n].end_time.pc
    /\ \A n \in 1..(Len(h) - 1) :
          /\ h[n].start_time.pc <= h[n + 1].start_time.pc
          /\ h[n].end_time.pc <= h[n + 1].end_time.pc

C10_DeviceOrdered(h) ==
    /\ \A n \in 1..Len(h) : h[n].start_time.uc <= h[n].end_time.uc
    /\ \A n \in 1..(Len(h) - 1) :
          /\ h[n].start_time.uc <= h[n + 1].start_time.uc
          /\ h[n].end_time.uc <= h[n + 1].end_time.uc

C10_Original ==
    \A h \in C10_Histories : C10_HostOrdered(h) /\ C10_DeviceOrdered(h)

C10_Ordered ==
    \A h \in C10_Histories :
        /\ C10_HostOrdered(h)
        /\ ~regressed => C10_DeviceOrdered(h)

(* a history of three entries, the last one closed by the item applied last *)
C10_Witness ==
    \E h \in C10_Histories :
        /\ Len(h) >= 3
        /\ Last(h).end_time = ev.time_pair
        /\ h[1].end_time.pc < h[3].end_time.pc

(***************************************************************************)
(* C16.  TracingInstance::update on an item whose executor id the registry *)
(* does not hold appends exactly one executor record, with the item's core *)
(* and the item's time as created_at and state_start_time, born Idle; an   *)
(* item whose executor id is held appends none.  The item is then          *)
(* delivered to every record, the appended one included: an                *)
(* ExecutorPollStart that creates an executor leaves it Scheduling (its    *)
(* Idle stay recorded in the history) and preempts every Scheduling or     *)
(* Polling executor recorded on the item's core.                           *)
(***************************************************************************)
C16_Known(execs, item) ==
    find_executor_by_id_locked(execs, item.data.executor_id) # {}

C16_RegistryUpdate ==
    [][LET item == ev'
           n == Len(executors)
           known == C16_Known(executors, item)
       IN  /\ Len(executors') = IF known THEN n ELSE n + 1
           /\ \A i \in 1..n : executors'[i] = ExecUpdate(executors[i], item)
           /\ ~known =>
                LET e == executors'[n + 1]
                    polls == item.data.kind = "ExecutorPollStart"
                IN  /\ e.executor_id = item.data.executor_id
                    /\ e.core_id = item.core_id
                    /\ e.created_at = item.time_pair
                    /\ e.state_start_time = item.time_pair
                    /\ e.state = IF polls THEN ExecScheduling ELSE ExecIdle
                    /\ e.state_history =
                         IF polls
                         THEN <<HistoryEntry(ExecIdle, item.time_pair, item.time_pair)>>
                         ELSE << >>
                    /\ polls =>
                         \A i \in 1..n :
                             (/\ executors[i].state \in {ExecScheduling, ExecPolling}
                              /\ executors[i].core_id = item.core_id)
                             => executors'[i].state =
                                  ExecPreempted(item.data.executor_id,
                                                executors[i].state.k)]_vars

(* an ExecutorPollStart has just created an executor, now Scheduling, and  *)
(* an executor older than it is Preempted by it since that item            *)
C16_Witness ==
    /\ ev.data.kind = "ExecutorPollStart"
    /\ \E i, j \in 1..Len(executors) :
          /\ i < j
          /\ executors[j].executor_id = ev.data.executor_id
          /\ executors[j].created_at = ev.time_pair
          /\ executors[j].state = ExecScheduling
          /\ executors[i].state.k = "Preempted"
          /\ executors[i].state.by_executor_id = ev.data.executor_id
          /\ executors[i].state_start_time = ev.time_pair

(***************************************************************************)
(* C17.  An item that carries a task id and is addressed to an executor    *)
(* that holds no task of that id makes that executor append exactly one    *)
(* task record, whatever the kind of the item: created_at and              *)
(* state_start_time are the item's time, and the item is applied to the    *)
(* new record, which ends the step Waiting (its Spawned stay recorded)     *)
(* after a TaskReadyBegin and Spawned after any other kind.  In every      *)
(* other case an executor appends no task; in particular the executors the *)
(* item is not addressed to append none.                                   *)
(***************************************************************************)
C17_Before(i) ==
    IF i <= Len(executors) THEN executors[i].tasks ELSE << >>

C17_TaskCreation ==
    [][\A i \in 1..Len(executors') :
          LET item == ev'
              e == executors'[i]
              old == C17_Before(i)
              lacks == /\ item.data.kind \in TaskKinds
                       /\ item.data.executor_id = e.executor_id
                       /\ \A j \in 1..Len(old) : old[j].task_id # item.data.task_id
              ready == item.data.kind = "TaskReadyBegin"
          IN  /\ Len(e.tasks) = IF lacks THEN Len(old) + 1 ELSE Len(old)
              /\ lacks =>
                   LET t == e.tasks[Len(old) + 1]
                   IN  /\ t.task_id = item.data.task_id
                       /\ t.executor_id = e.executor_id
                       /\ t.created_at = item.time_pair
                       /\ t.state_start_time = item.time_pair
                       /\ t.state = IF ready THEN TaskWaiting ELSE TaskSpawned
                       /\ t.state_history =
                            IF ready
                            THEN <<HistoryEntry(TaskSpawned, item.time_pair,
                                                item.time_pair)>>
                            ELSE << >>]_vars

(* a TaskExecBegin has just created a task, still Spawned, in an executor  *)
(* older than the item, and another executor holds no task                 *)
C17_Witness ==
    /\ ev.data.kind = "TaskExecBegin"
    /\ \E i, j \in 1..Len(executors) :
          /\ executors[i].executor_id = ev.data.executor_id
          /\ executors[i].created_at # ev.time_pair
          /\ \E k \in 1..Len(executors[i].tasks) :
                /\ executors[i].tasks[k].task_id = ev.data.task_id
                /\ executors[i].tasks[k].created_at = ev.time_pair
                /\ executors[i].tasks[k].state = TaskSpawned
          /\ executors[j].executor_id # ev.data.executor_id
          /\ executors[j].tasks = << >>

(***************************************************************************)
(* C18.  The core_id of an executor record is the core of the item that    *)
(* created it and no later item changes it, whatever core it carries.      *)
(***************************************************************************)
C18_CoreFixed ==
    [][/\ \A i \in 1..Len(executors) :
             executors'[i].core_id = executors[i].core_id
       /\ ~C16_Known(executors, ev') =>
             executors'[Len(executors')].core_id = ev'.core_id]_vars

(* the last item was addressed to an executor recorded on another core *)
C18_Witness ==
    \E i \in 1..Len(executors) :
        /\ executors[i].executor_id = ev.data.executor_id
        /\ executors[i].created_at # ev.time_pair
        /\ executors[i].core_id # ev.core_id

(***************************************************************************)
(* C19.  No item removes an executor record from the registry or a task    *)
(* record from an executor: every record stays at its position with its    *)
(* id, also a task that has Ended and a record whose history the eviction  *)
(* has emptied.                                                            *)
(***************************************************************************)
C19_RecordsKept ==
    [][/\ Len(executors') >= Len(executors)
       /\ \A i \in 1..Len(executors) :
             /\ executors'[i].executor_id = executors[i].executor_id
             /\ Len(executors'[i].tasks) >= Len(executors[i].tasks)
             /\ \A j \in 1..Len(executors[i].tasks) :
                   executors'[i].tasks[j].task_id = executors[i].tasks[j].task_id]_vars

(* an executor that has changed state is still recorded after the eviction *)
(* emptied its history, and an item has been applied since                 *)
C19_Witness ==
    \E i \in 1..Len(executors) :
        /\ executors[i].state_history = << >>
        /\ executors[i].state_start_time # executors[i].created_at
        /\ executors[i].state_start_time # ev.time_pair

(***************************************************************************)
(* C20.  parse_from_line returns for every line, Ok or one of the error    *)
(* kinds, and never aborts; a line whose first ']' stands before its first *)
(* '[', a line with nothing between its brackets and a line with fewer     *)
(* than four fields are each answered with InvalidFormat.                  *)
(***************************************************************************)
C20_ClosesBeforeOpens(l) ==
    \E i \in find(l, "["), j \in find(l, "]") : j < i

C20_EmptyBrackets(l) ==
    \E i \in find(l, "["), j \in find(l, "]") : j = i + 1

C20_FewerThanFourFields(l) ==
    \E i \in find(l, "["), j \in find(l, "]") :
        i < j /\ Len(split(SubSeq(l, i + 1, j - 1))) < 4

C20_NeverAborts ==
    result # NoResult =>
        /\ result.tag \in {"Ok", "Err"}
        /\ (\/ C20_ClosesBeforeOpens(line)
            \/ C20_EmptyBrackets(line)
            \/ C20_FewerThanFourFields(line)) => result = Err("InvalidFormat")

(***************************************************************************)
(* C11.  What get_stats computes while update calls go on is computed from *)
(* the registry as the update calls that have returned left it: while a    *)
(* reader holds the mutex the registry is the result of the items applied  *)
(* so far, each applied to every executor and task, the created ones       *)
(* included, and the statistics a reader takes are those of that registry, *)
(* which holds every update that returned before the reader got the lock.  *)
(***************************************************************************)
C11_SnapshotAtomic ==
    /\ [](mutex \in Readers => executors = RegistryAfter(applied))
    /\ [][\A r \in Readers :
             (readers[r].pc = "stats" /\ readers'[r].pc = "send")
             => /\ readers'[r].stats =
                     InstanceStats_from_executors(RegistryAfter(applied))
                /\ applied' = applied]_vars

(* a reader holds statistics taken after an update, and took them while    *)
(* the writer was waiting for the mutex with the next item                 *)
C11_Witness ==
    \E r \in Readers :
        /\ readers[r].pc = "send"
        /\ applied # << >>
        /\ readers[r].stats = InstanceStats_from_executors(RegistryAfter(applied))
        /\ writer.pc = "lock"

(***************************************************************************)
(* C12.  The items applied to the registry are the items sent on the trace *)
(* channel, in the order sent, none skipped, doubled or moved: the items   *)
(* applied, the item the writer holds and the items queued make up the     *)
(* items sent, and between two update calls the registry is the result of  *)
(* the items applied, whatever the readers did in between.                 *)
(***************************************************************************)
C12_InHand ==
    IF writer.pc \in {"lock", "create", "update"} THEN <<writer.item>> ELSE << >>

C12_AppliedInOrder ==
    /\ applied \o C12_InHand \o chan = sent
    /\ writer.pc \in {"recv", "lock", "done"} => executors = RegistryAfter(applied)

(* two different items have been applied, and a reader holds statistics it *)
(* took between the two update calls                                       *)
C12_Witness ==
    /\ Len(applied) = 2
    /\ applied[1].data # applied[2].data
    /\ \E r \in Readers :
          /\ readers[r].pc = "send"
          /\ readers[r].stats.core_stats = RegistryAfter(<<applied[1]>>)

C14_LockScope ==
    /\ (mutex = Writer) <=> (writer.pc \in {"create", "update"})
    /\ \A r \in Readers : (mutex = r) <=> (readers[r].pc = "stats")

(* after an update the writer waits on the empty channel, one reader is    *)
(* sending statistics, the other sleeps, and the mutex is free             *)
C14_Witness ==
    /\ writer.pc = "recv"
    /\ chan = << >>
    /\ trace_tx
    /\ applied # << >>
    /\ mutex = Free
    /\ \E r, q \in Readers :
          /\ readers[r].pc = "send"
          /\ readers[r].stats.executor_count > 0
          /\ readers[q].pc = "sleep"

C21_Fields(l) ==
    LET i == CHOOSE i \in find(l, "[") : TRUE
        j == CHOOSE j \in find(l, "]") : TRUE
        content == SubSeq(l, i + 1, j - 1)
    IN  [k \in 1..Len(split(content)) |-> trim(split(content)[k])]

C21_IsName(text, names) == Len(text) = 1 /\ text[1] \in names

C21_Defects(l) ==
    IF find(l, "[") = {} \/ find(l, "]") = {} THEN {"bracket"}
    ELSE LET f == C21_Fields(l)
             n == Len(f)
         IN  {d \in {"count", "timestamp", "core", "type", "executor", "task", "payload"} :
                 \/ d = "count" /\ n < 4
                 \/ d = "timestamp" /\ n >= 1 /\ parse(f[1], U64_MAX) = {}
                 \/ d = "core" /\ n >= 2 /\ parse(f[2], U32_MAX) = {}
                 \/ d = "type" /\ n >= 3
                               /\ ~C21_IsName(f[3], ExecutorKinds \cup TaskKinds)
                 \/ d = "executor" /\ n >= 4 /\ parse(f[4], U32_MAX) = {}
                 \/ d = "task" /\ n >= 5 /\ parse(f[5], U32_MAX) = {}
                 \/ d = "payload" /\ n >= 3 /\ n < 5 /\ C21_IsName(f[3], TaskKinds)}

C21_KindOf(d) ==
    CASE d \in {"bracket", "count"} -> "InvalidFormat"
      [] d = "timestamp" -> "InvalidTimestamp"
      [] d = "core" -> "InvalidCoreId"
      [] d = "type" -> "InvalidEventType"
      [] d = "executor" -> "InvalidExecutorId"
      [] d = "task" -> "InvalidTaskId"
      [] d = "payload" -> "InvalidEventPayload"

C21_OneDefect(l, d) ==
    /\ ~C20_ClosesBeforeOpens(l)
    /\ C21_Defects(l) = {d}

C21_ErrorKinds ==
    result # NoResult =>
        \A d \in {"bracket", "count", "timestamp", "core", "type", "executor",
                   "task", "payload"} :
            C21_OneDefect(line, d) => result = Err(C21_KindOf(d))

C21_Witness ==
    /\ C21_OneDefect(line, "payload")
    /\ result = Err("InvalidEventPayload")

(***************************************************************************)
(* C22.  A line naming one of the five task events without a fifth field   *)
(* is rejected, and a line naming ExecutorIdle or ExecutorPollStart that   *)
(* carries a fifth field is rejected as well.                              *)
(***************************************************************************)
C22_Bracketed(l) ==
    /\ find(l, "[") # {}
    /\ find(l, "]") # {}
    /\ ~C20_ClosesBeforeOpens(l)

C22_TaskIdRule ==
    (result # NoResult /\ C22_Bracketed(line) /\ Len(C21_Fields(line)) >= 4) =>
        LET f == C21_Fields(line)
        IN  /\ (C21_IsName(f[3], TaskKinds) /\ Len(f) = 4) => result.tag = "Err"
            /\ (C21_IsName(f[3], ExecutorKinds) /\ Len(f) >= 5) => result.tag = "Err"

(***************************************************************************)
(* C23.  A well-formed trace line, whatever text stands before and behind  *)
(* its brackets and whatever blanks stand around its fields, is parsed     *)
(* into the event with the device time, core id, event name, executor id   *)
(* and task id written in the line and with the host time the caller       *)
(* supplied.                                                               *)
(***************************************************************************)
(* the number a field writes, as Display prints it back *)
C23_Written(text) ==
    StripZeros(SelectSeq(text, LAMBDA c : c \in DigitChars))

C23_IsNumber(text, max) == parse(trim(text), max) # {}

C23_WellFormed(f) ==
    /\ Len(f) \in {4, 5}
    /\ C23_IsNumber(f[1], U64_MAX)
    /\ C23_IsNumber(f[2], U32_MAX)
    /\ C23_IsNumber(f[4], U32_MAX)
    /\ \/ C21_IsName(trim(f[3]), ExecutorKinds) /\ Len(f) = 4
       \/ C21_IsName(trim(f[3]), TaskKinds) /\ Len(f) = 5
                                            /\ C23_IsNumber(f[5], U32_MAX)

C23_Tuple(f, pc_timestamp) ==
    TraceItem(TimePair(C23_Written(f[1]), pc_timestamp), C23_Written(f[2]),
              IF Len(f) = 4
              THEN [kind |-> trim(f[3])[1], executor_id |-> C23_Written(f[4])]
              ELSE [kind |-> trim(f[3])[1], executor_id |-> C23_Written(f[4]),
                    task_id |-> C23_Written(f[5])])

(* the fields of l when l is before, '[', fields, ']', after *)
C23_FieldsBetween(l, before, after) ==
    LET from == Len(before) + 1
        to == Len(l) - Len(after)
    IN  IF /\ from < to
           /\ SubSeq(l, 1, from) = before \o <<"[">>
           /\ SubSeq(l, to, Len(l)) = <<"]">> \o after
           /\ \A k \in (from + 1)..(to - 1) : l[k] \notin {"[", "]"}
        THEN {split(SubSeq(l, from + 1, to - 1))}
        ELSE {}

C23_RoundTrip ==
    [][\A pc_timestamp \in PcTimestamps :
         result' = parse_from_line(line, pc_timestamp) =>
            \A before \in TextsBefore, after \in TextsAfter :
                \A f \in C23_FieldsBetween(line, before, after) :
                    C23_WellFormed(f) => result' = Ok(C23_Tuple(f, pc_timestamp))]_vars

(***************************************************************************)
(* C24.  A trace line that fails to parse puts no event on the trace       *)
(* channel and does not stop the stdout thread: the events sent on the     *)
(* trace channel are exactly the well-formed trace lines read so far, in   *)
(* the order of the input.                                                 *)
(***************************************************************************)
C24_WellFormed(l) ==
    /\ contains(l, TraceStart)
    /\ contains(l, TraceEnd)
    /\ \E f \in C23_FieldsBetween(l, <<TraceStart>>, <<TraceEnd>>) : C23_WellFormed(f)

C24_EventOf(l, pc_timestamp) ==
    C23_Tuple(CHOOSE f \in C23_FieldsBetween(l, <<TraceStart>>, <<TraceEnd>>) : TRUE,
              pc_timestamp)

(* the events of the well-formed trace lines among lines[k..], the build *)
(* being finished or not when lines[k] arrives                           *)
RECURSIVE C24_Events(_, _, _)
C24_Events(lines, k, built) ==
    IF k > Len(lines) THEN << >>
    ELSE IF ~built THEN C24_Events(lines, k + 1, contains(lines[k], BuildFinished))
    ELSE IF C24_WellFormed(lines[k])
    THEN <<C24_EventOf(lines[k], k)>> \o C24_Events(lines, k + 1, TRUE)
    ELSE C24_Events(lines, k + 1, TRUE)

C24_ParseErrorsLocal ==
    /\ stdout.pc # "panicked"
    /\ sent = C24_Events(stdout.lines, 1, FALSE)

(***************************************************************************)
(* C25.  An executor's cpu_utilization_percent is the time it spent in     *)
(* Scheduling and Polling, Idle and Preempted counting as inactive, over   *)
(* the durations of its history plus the extrapolated duration of its      *)
(* present state; it lies in [0, 100] and is 0 when that total is zero.    *)
(***************************************************************************)
InRange(percent) == 0 <= percent.num /\ percent.num <= 100 * percent.den

(* the executor statistics of a reading *)
C25_ExecutorStats(reading) ==
    UNION {{reading.core_stats[c].executors[k] :
               k \in 1..Len(reading.core_stats[c].executors)} :
           c \in 1..Len(reading.core_stats)}

RECURSIVE C25_Recorded(_, _)
C25_Recorded(history, kinds) ==
    IF history = << >> THEN 0
    ELSE (IF Head(history).state.k \in kinds /\ Head(history).end_time.pc >= Head(history).start_time.pc
          THEN Head(history).end_time.pc - Head(history).start_time.pc ELSE 0)
         + C25_Recorded(Tail(history), kinds)

(* the time e spent in states of the given kinds up to the host time now *)
C25_Time(e, now, kinds) ==
    C25_Recorded(e.state_history, kinds)
    + (IF e.state.k \in kinds /\ now >= e.state_start_time.pc
       THEN now - e.state_start_time.pc ELSE 0)

C25_ExecutorUtilization ==
    stats # NoStats =>
        \A i \in 1..Len(executors) :
            \E x \in C25_ExecutorStats(stats) :
                LET percent == x.cpu_utilization_percent
                    active == C25_Time(executors[i], stats.now, {"Scheduling", "Polling"})
                    total == C25_Time(executors[i], stats.now,
                                      {"Scheduling", "Polling", "Idle", "Preempted"})
                IN  /\ x.executor_id = executors[i].executor_id
                    /\ InRange(percent)
                    /\ total = 0 => percent.num = 0
                    /\ total > 0 => percent.num * total = 100 * active * percent.den

C25_Witness ==
    /\ stats # NoStats
    /\ \E i \in 1..Len(executors), x \in C25_ExecutorStats(stats) :
          /\ x.executor_id = executors[i].executor_id
          /\ executors[i].state.k = "Preempted"
          /\ 0 < x.cpu_utilization_percent.num
          /\ x.cpu_utilization_percent.num < 100 * x.cpu_utilization_percent.den

(* the statistics a reading holds for the task at position p of the registry *)
TaskStatsAt(reading, p) ==
    LET x == CHOOSE x \in C25_ExecutorStats(reading) :
                 x.executor_id = executors[p[1]].executor_id
    IN  x.tasks[p[2]]

(***************************************************************************)
(* C26.  A task's cpu_utilization_percent lies in [0, 100] in every        *)
(* reachable state of the registry: also after a device time that went     *)
(* back and with a history that is empty or evicted in part.               *)
(***************************************************************************)
C26_TaskUtilizationInRange ==
    stats # NoStats =>
        \A p \in TaskPositions(executors) :
            InRange(TaskStatsAt(stats, p).cpu_utilization_percent)

(***************************************************************************)
(* C27.  A core's cpu_utilization_percent is the sum of the utilizations   *)
(* of the executors on that core and lies in [0, 100] in every reachable   *)
(* state of the registry.                                                  *)
(***************************************************************************)
C27_CoreUtilization ==
    stats # NoStats =>
        \A c \in 1..Len(stats.core_stats) :
            LET core == stats.core_stats[c]
            IN  /\ \A k \in 1..Len(core.executors) :
                      \E i \in 1..Len(executors) :
                          /\ executors[i].executor_id = core.executors[k].executor_id
                          /\ executors[i].core_id = core.core_id
                /\ core.cpu_utilization_percent = PercentSum(core.executors)
                /\ InRange(core.cpu_utilization_percent)

(***************************************************************************)
(* C28.  For a task that is not Waiting the waiting statistics are the     *)
(* least, the greatest, the number and the mean (the sum over the number,  *)
(* as a Duration) of the device-time durations of the Waiting entries of   *)
(* its history; entries of 5, 10 and 20 give min 5, max 20, count 3 and    *)
(* mean 35/3.                                                              *)
(***************************************************************************)
(* the device-time durations of the Waiting entries of t's history *)
C28_Waits(t) ==
    LET waits == SelectSeq(t.state_history, LAMBDA entry : entry.state.k = "Waiting")
    IN  [k \in 1..Len(waits) |-> waits[k].end_time.uc - waits[k].start_time.uc]

RECURSIVE C28_Sum(_)
C28_Sum(durations) ==
    IF durations = << >> THEN 0 ELSE Head(durations) + C28_Sum(Tail(durations))

C28_Min(durations) ==
    CHOOSE d \in {durations[k] : k \in 1..Len(durations)} :
        \A k \in 1..Len(durations) : d <= durations[k]

C28_Max(durations) ==
    CHOOSE d \in {durations[k] : k \in 1..Len(durations)} :
        \A k \in 1..Len(durations) : d >= durations[k]

(* the mean is sum / count cut off at the nanosecond (compared at the *)
(* microsecond)                                                        *)
C28_IsMean(mean, sum, count) ==
    /\ mean.secs = sum \div count
    /\ 0 <= mean.nanos /\ mean.nanos < 1000000000
    /\ (mean.nanos \div 1000) * count <= (sum % count) * 1000000
    /\ (sum % count) * 1000000 < ((mean.nanos \div 1000) + 1) * count

C28_WaitingStatistics ==
    stats # NoStats =>
        \A p \in TaskPositions(executors) :
            LET t == TaskAt(executors, p)
                x == TaskStatsAt(stats, p)
                waits == C28_Waits(t)
            IN  (t.state.k # "Waiting" /\ waits # << >>) =>
                    /\ x.min_waiting_time = C28_Min(waits)
                    /\ x.max_waiting_time = C28_Max(waits)
                    /\ x.count_waiting_time = Len(waits)
                    /\ C28_IsMean(x.avg_waiting_time, C28_Sum(waits), Len(waits))

C28_Witness ==
    /\ stats # NoStats
    /\ \E p \in TaskPositions(executors) :
          /\ TaskAt(executors, p).state.k = "Idle"
          /\ C28_Waits(TaskAt(executors, p)) = <<5, 10, 20>>
          /\ TaskStatsAt(stats, p).min_waiting_time = 5
          /\ TaskStatsAt(stats, p).max_waiting_time = 20
          /\ TaskStatsAt(stats, p).count_waiting_time = 3
          /\ TaskStatsAt(stats, p).avg_waiting_time = [secs |-> 11, nanos |-> 666666666]

(***************************************************************************)
(* C29.  For a task that is Waiting, the wait going on is counted, and     *)
(* enters the mean, only if it is longer than the least wait of the        *)
(* history; it never lowers the minimum; and it is the reported maximum    *)
(* whenever it is longer than the greatest wait of the history, counted or *)
(* not.                                                                    *)
(***************************************************************************)
C29_OngoingWait ==
    stats # NoStats =>
        \A p \in TaskPositions(executors) :
            LET t == TaskAt(executors, p)
                x == TaskStatsAt(stats, p)
                waits == C28_Waits(t)
                ongoing == stats.now - t.state_start_time.pc
                counted == waits # << >> /\ ongoing > C28_Min(waits)
                greatest == IF waits = << >> THEN 0 ELSE C28_Max(waits)
            IN  t.state.k = "Waiting" =>
                    /\ x.count_waiting_time = Len(waits) + (IF counted THEN 1 ELSE 0)
                    /\ counted =>
                          C28_IsMean(x.avg_waiting_time, C28_Sum(waits) + ongoing,
                                     Len(waits) + 1)
                    /\ (~counted /\ waits # << >>) =>
                          C28_IsMean(x.avg_waiting_time, C28_Sum(waits), Len(waits))
                    /\ waits # << >> => x.min_waiting_time = C28_Min(waits)
                    /\ x.max_waiting_time = IF ongoing > greatest THEN ongoing ELSE greatest

(***************************************************************************)
(* C30.  The device time extrapolated for a record is the device time of   *)
(* its state's start plus the host time elapsed since, the elapsed time    *)
(* taken as zero if the host clock stood before the start; so the duration *)
(* of the present state is the elapsed host time and never negative, and   *)
(* the duration of a history entry whose device time went back is zero.    *)
(***************************************************************************)
C30_Elapsed(r, now) ==
    IF now >= r.state_start_time.pc THEN now - r.state_start_time.pc ELSE 0

C30_Extrapolation ==
    stats # NoStats =>
        /\ \A i \in 1..Len(executors) :
              \A now \in 0..stats.now :
                  executor_extrapolate_current_state_duration(executors[i], now)
                      = executors[i].state_start_time.uc + C30_Elapsed(executors[i], now)
        /\ \A p \in TaskPositions(executors) :
              LET t == TaskAt(executors, p)
              IN  /\ \A now \in 0..stats.now :
                        /\ task_extrapolate_current_state_duration(t, now)
                               = t.state_start_time.uc + C30_Elapsed(t, now)
                        /\ calc_current_state_duration(t, now) = C30_Elapsed(t, now)
                  /\ stats.now >= t.state_start_time.pc
                  /\ \A k \in 1..Len(t.state_history) :
                        LET entry == t.state_history[k]
                        IN  get_uc_duration(entry) =
                                IF entry.end_time.uc < entry.start_time.uc THEN 0
                                ELSE entry.end_time.uc - entry.start_time.uc
                  /\ calc_total_history_duration(t, stats.now) >= 0
                  /\ calc_total_history_state_duration(t, TaskRunning, stats.now) >= 0

C30_Witness ==
    /\ stats # NoStats
    /\ \E p \in TaskPositions(executors) :
          LET t == TaskAt(executors, p)
          IN  /\ \E k \in 1..Len(t.state_history) :
                    /\ t.state_history[k].end_time.uc < t.state_history[k].start_time.uc
                    /\ t.state_history[k].state.k = "Waiting"
                    /\ get_uc_duration(t.state_history[k]) = 0
              /\ t.state.k = "Running"
              /\ calc_current_state_duration(t, stats.now) = 2

C32_Evicted(before, after, h) ==
    \E grown \in {before} \cup (IF after = << >> THEN {}
                                ELSE {Append(before, Last(after))}) :
      \E k \in 0..Len(grown) :
        /\ after = SubSeq(grown, k + 1, Len(grown))
        /\ \A n \in 1..k : h - grown[n].end_time.pc > HISTORY_MAX_TIME_S
        /\ \A n \in 1..Len(after) : h - after[n].end_time.pc <= HISTORY_MAX_TIME_S

C32_Kept(before, after) ==
    /\ Len(before) <= Len(after)
    /\ SubSeq(after, 1, Len(before)) = before

C32_TaskPass(t, item) ==
    AddressedTo(t, item) /\ ~TaskIsPreempted(t, item) /\ ~TaskIsResumed(t, item)

C32_Eviction ==
    [][/\ \A i \in 1..Len(executors) :
            IF get_executor_id(ev'.data) = executors[i].executor_id
            THEN C32_Evicted(executors[i].state_history,
                             executors'[i].state_history, ev'.time_pair.pc)
            ELSE C32_Kept(executors[i].state_history, executors'[i].state_history)
       /\ \A p \in TaskPositions(executors) :
            IF C32_TaskPass(TaskAt(executors, p), ev')
            THEN C32_Evicted(TaskAt(executors, p).state_history,
                             TaskAt(executors', p).state_history, ev'.time_pair.pc)
            ELSE C32_Kept(TaskAt(executors, p).state_history,
                          TaskAt(executors', p).state_history)]_vars

(* the item applied last took the Idle entry an executor's history begins  *)
(* with off the front and left an entry exactly one window old there       *)
C32_Witness ==
    \E i \in 1..Len(executors) :
        /\ get_executor_id(ev.data) = executors[i].executor_id
        /\ executors[i].state_history # << >>
        /\ Head(executors[i].state_history).state # ExecIdle
        /\ ev.time_pair.pc - Head(executors[i].state_history).end_time.pc
              = HISTORY_MAX_TIME_S

(***************************************************************************)
(* C33.  In every reachable registry no two executor records carry the     *)
(* same executor id, no two task records of one executor carry the same    *)
(* task id, and every task record carries the executor id and the core of  *)
(* the executor that holds it.  (Two executors may each hold a task with   *)
(* the same task id: the witness.)                                         *)
(***************************************************************************)
C33_RegistryKeys ==
    /\ \A i, j \in 1..Len(executors) :
          i # j => executors[i].executor_id # executors[j].executor_id
    /\ \A i \in 1..Len(executors) :
          \A j, k \in 1..Len(executors[i].tasks) :
             j # k => executors[i].tasks[j].task_id # executors[i].tasks[k].task_id
    /\ \A p \in TaskPositions(executors) :
          /\ TaskAt(executors, p).executor_id = executors[p[1]].executor_id
          /\ TaskAt(executors, p).core_id = executors[p[1]].core_id

(* two executors on different cores each hold a task with the same id, and *)
(* the last item was addressed to one that existed before it               *)
C33_Witness ==
    \E p, q \in TaskPositions(executors) :
        /\ p[1] # q[1]
        /\ TaskAt(executors, p).task_id = TaskAt(executors, q).task_id
        /\ executors[p[1]].core_id # executors[q[1]].core_id
        /\ AddressedTo(TaskAt(executors, p), ev)
        /\ TaskAt(executors, p).created_at # ev.time_pair

(***************************************************************************)
(* C34.  In every history, of a task or of an executor, each entry starts  *)
(* at the time pair at which the entry before it ends, also after the      *)
(* eviction has taken entries off the front.                               *)
(***************************************************************************)
C34_Histories ==
    {executors[i].state_history : i \in 1..Len(executors)}
    \cup {TaskAt(executors, p).state_history : p \in TaskPositions(executors)}

C34_Contiguous ==
    \A h \in C34_Histories :
        \A n \in 1..(Len(h) - 1) : h[n + 1].start_time = h[n].end_time

(* an executor's history that lost its first (Idle) entry to the eviction  *)
(* and holds two entries, the second one lasting from the end of the first *)
(* to the item applied last                                                *)
C34_Witness ==
    \E i \in 1..Len(executors) :
        LET h == executors[i].state_history
        IN  /\ Len(h) = 2
            /\ h[1].state # ExecIdle
            /\ h[2].start_time = h[1].end_time
            /\ h[2].end_time = ev.time_pair
            /\ h[2].start_time # h[2].end_time

(***************************************************************************)
(* C35.  One item appends at most one entry to the history of each task    *)
(* and of each executor (items a second apart evict nothing, so a history  *)
(* grows by what the item appends).  An executor that the item preempts or *)
(* resumes ends in the Preempted state, or in the state it was preempted   *)
(* in, and not in a state the own-item table leads on to; a task that the  *)
(* item preempts or resumes ends Preempted, or Running.                    *)
(***************************************************************************)
C35_AtMostOne(before, after) ==
    /\ C32_Kept(before, after)
    /\ Len(after) <= Len(before) + 1

C35_OneTransition ==
    [][/\ \A i \in 1..Len(executors') :
            LET after == executors'[i]
            IN  IF i <= Len(executors)
                THEN LET e == executors[i]
                     IN  /\ C35_AtMostOne(e.state_history, after.state_history)
                         /\ ExecIsPreempted(e, ev') =>
                               after.state = ExecPreempted(ev'.data.executor_id, e.state.k)
                         /\ ExecIsResumed(e, ev') =>
                               after.state = PrevStateInto(e.state.prev_state)
                ELSE Len(after.state_history) <= 1
       /\ \A p \in TaskPositions(executors') :
            LET after == TaskAt(executors', p)
            IN  IF p \in TaskPositions(executors)
                THEN LET t == TaskAt(executors, p)
                     IN  /\ C35_AtMostOne(t.state_history, after.state_history)
                         /\ TaskIsPreempted(t, ev') =>
                               after.state = TaskPreempted(ev'.data.executor_id)
                         /\ TaskIsResumed(t, ev') => after.state = TaskRunning
                ELSE Len(after.state_history) <= 1]_vars

(* the item applied last, an ExecutorPollStart, moved three entities at    *)
(* once: its own executor to Scheduling, a Polling executor on the same    *)
(* core to Preempted, and that executor's Running task to Preempted        *)
C35_Witness ==
    \E i, j \in 1..Len(executors) : \E k \in 1..Len(executors[j].tasks) :
        /\ executors[i].executor_id = ev.data.executor_id
        /\ JustLeft(executors[i], ExecIdle)
        /\ executors[i].state = ExecScheduling
        /\ JustLeft(executors[j], ExecPolling)
        /\ executors[j].state = ExecPreempted(ev.data.executor_id, "Polling")
        /\ JustLeft(executors[j].tasks[k], TaskRunning)
        /\ executors[j].tasks[k].state = TaskPreempted(ev.data.executor_id)

(***************************************************************************)
(* C36.  An item is foreign to executor E when it carries another          *)
(* executor's id and neither preempts E (ExecutorPollStart on E's core     *)
(* while E is Scheduling or Polling) nor resumes it (ExecutorIdle of the   *)
(* recorded preemptor while E is Preempted); it is foreign to a task when  *)
(* it is not addressed to the task and neither preempts nor resumes it.    *)
(* As stated (C36_Original): an item foreign to E leaves E's state,        *)
(* state_start_time, state_history and tasks unchanged, and an item        *)
(* foreign to a task leaves the task's state, state_start_time and         *)
(* state_history unchanged.  The task records in E's list are not kept: a  *)
(* Running task of an executor that is Idle is preempted by an             *)
(* ExecutorPollStart on its core that does not preempt E.  What holds      *)
(* (C36_Frame): E's state, state_start_time and state_history are          *)
(* unchanged and its list holds the same tasks in the same order (their    *)
(* ids, cores and creation times); every task the item is foreign to is    *)
(* unchanged.                                                              *)
(***************************************************************************)
C36_ForeignToExecutor(e, item) ==
    /\ item.data.executor_id # e.executor_id
    /\ ~(/\ item.data.kind = "ExecutorPollStart"
         /\ item.core_id = e.core_id
         /\ e.state \in {ExecScheduling, ExecPolling})
    /\ ~(/\ item.data.kind = "ExecutorIdle"
         /\ e.state.k = "Preempted"
         /\ item.data.executor_id = e.state.by_executor_id)

C36_ForeignToTask(t, item) ==
    ~AddressedTo(t, item) /\ ~TaskIsPreempted(t, item) /\ ~TaskIsResumed(t, item)

C36_SameRecord(r, after) ==
    /\ after.state = r.state
    /\ after.state_start_time = r.state_start_time
    /\ after.state_history = r.state_history

C36_SameTasks(tasks, after) ==
    /\ Len(after) = Len(tasks)
    /\ \A j \in 1..Len(tasks) :
          /\ after[j].task_id = tasks[j].task_id
          /\ after[j].executor_id = tasks[j].executor_id
          /\ after[j].core_id = tasks[j].core_id
          /\ after[j].created_at = tasks[j].created_at

C36_TasksFramed ==
    \A p \in TaskPositions(executors) :
        C36_ForeignToTask(TaskAt(executors, p), ev') =>
            C36_SameRecord(TaskAt(executors, p), TaskAt(executors', p))

C36_Original ==
    [][/\ \A i \in 1..Len(executors) :
            C36_ForeignToExecutor(executors[i], ev') =>
               /\ C36_SameRecord(executors[i], executors'[i])
               /\ executors'[i].tasks = executors[i].tasks
       /\ C36_TasksFramed]_vars

C36_Frame ==
    [][/\ \A i \in 1..Len(executors) :
            C36_ForeignToExecutor(executors[i], ev') =>
               /\ C36_SameRecord(executors[i], executors'[i])
               /\ C36_SameTasks(executors[i].tasks, executors'[i].tasks)
       /\ C36_TasksFramed]_vars

(* more than a window after executor E was created, still Idle, the last   *)
(* item, foreign to E, has preempted the Running task in E's list; E's     *)
(* state_start_time is still its creation time and the task's old entries  *)
(* are still there                                                         *)
C36_Witness ==
    \E i \in 1..Len(executors) : \E k \in 1..Len(executors[i].tasks) :
        /\ C36_ForeignToExecutor(executors[i], ev)
        /\ executors[i].state = ExecIdle
        /\ executors[i].state_start_time = executors[i].created_at
        /\ ev.time_pair.pc - executors[i].created_at.pc > HISTORY_MAX_TIME_S
        /\ JustLeft(executors[i].tasks[k], TaskRunning)
        /\ executors[i].tasks[k].state = TaskPreempted(ev.data.executor_id)
        /\ Len(executors[i].tasks[k].state_history) = 3

(***************************************************************************)
(* C37.  An executor that is Preempted{by_executor_id: B, prev_state}      *)
(* keeps exactly that state on every item but the ExecutorIdle of B (the   *)
(* ExecutorPollStart of a third executor on its core and its own items     *)
(* included), and the ExecutorIdle of B puts it into prev_state.  In every *)
(* Preempted state, of an executor or of a task, by_executor_id is not the *)
(* executor id of the record itself.                                       *)
(***************************************************************************)
C37_PreemptedBySelf(execs) ==
    \/ \E i \in 1..Len(execs) :
          /\ execs[i].state.k = "Preempted"
          /\ execs[i].state.by_executor_id = execs[i].executor_id
    \/ \E p \in TaskPositions(execs) :
          /\ TaskAt(execs, p).state.k = "Preempted"
          /\ TaskAt(execs, p).state.by_executor_id = TaskAt(execs, p).executor_id

C37_PreemptedHolds ==
    [][/\ \A i \in 1..Len(executors) :
            executors[i].state.k = "Preempted" =>
               IF /\ ev'.data.kind = "ExecutorIdle"
                  /\ ev'.data.executor_id = executors[i].state.by_executor_id
               THEN executors'[i].state = [k |-> executors[i].state.prev_state]
               ELSE executors'[i].state = executors[i].state
       /\ ~C37_PreemptedBySelf(executors')]_vars

(* an executor preempted while Scheduling has been resumed by the          *)
(* ExecutorIdle of its preemptor after at least one other item: it is      *)
(* Scheduling again and its Preempted entry spans the items in between     *)
C37_Witness ==
    \E i \in 1..Len(executors) :
        /\ ev.data.kind = "ExecutorIdle"
        /\ JustLeft(executors[i], ExecPreempted(ev.data.executor_id, "Scheduling"))
        /\ executors[i].state = ExecScheduling
        /\ ev.time_pair.pc - Last(executors[i].state_history).start_time.pc >= 2

(***************************************************************************)
(* C38.  Whatever the state of a task and whenever the statistics are      *)
(* taken, a value returned by calc_min_mean_max_count_waiting_time has     *)
(* count >= 1 and min <= mean <= max, with or without the wait going on    *)
(* folded in.                                                              *)
(***************************************************************************)
C38_Ordered(w) ==
    /\ w.count >= 1
    /\ w.min <= w.mean.secs
    /\ w.mean.secs < w.max \/ (w.mean.secs = w.max /\ w.mean.nanos = 0)

C38_WaitingOrdered ==
    \A p \in TaskPositions(executors) : \A d \in WaitingDelays :
        \A w \in calc_min_mean_max_count_waiting_time(TaskAt(executors, p),
                                                      ev.time_pair.pc + d) :
            C38_Ordered(w)

(* a reading taken of a task with waits of 5 and 20 behind it and waiting  *)
(* for 7 now: the wait going on is folded in, count 3, and the mean of     *)
(* 32/3 lies strictly between the minimum 5 and the maximum 20             *)
C38_Witness ==
    /\ stats # NoStats
    /\ \E p \in TaskPositions(executors) :
          /\ TaskAt(executors, p).state = TaskWaiting
          /\ C28_Waits(TaskAt(executors, p)) = <<5, 20>>
          /\ stats.now - TaskAt(executors, p).state_start_time.pc = 7
          /\ TaskStatsAt(stats, p).count_waiting_time = 3
          /\ TaskStatsAt(stats, p).min_waiting_time = 5
          /\ TaskStatsAt(stats, p).avg_waiting_time = [secs |-> 10, nanos |-> 666666666]
          /\ TaskStatsAt(stats, p).max_waiting_time = 20

(***************************************************************************)
(* C39.  For a task whose history holds no Waiting entry                   *)
(* calc_min_mean_max_count_waiting_time returns None, whatever the state   *)
(* of the task and however long a wait going on has lasted, and the        *)
(* statistics report a minimum, mean, maximum and count of zero.           *)
(***************************************************************************)
C39_NoWaitBehind(t) ==
    \A n \in 1..Len(t.state_history) : t.state_history[n].state # TaskWaiting

C40_TrackedFrom(t) ==
    IF t.state_history = << >> THEN t.state_start_time.uc
    ELSE Head(t.state_history).start_time.uc

C40_TotalTracked ==
    stats # NoStats =>
        \A p \in TaskPositions(executors) :
            LET t == TaskAt(executors, p)
                now_uc == t.state_start_time.uc + (stats.now - t.state_start_time.pc)
                percent == TaskStatsAt(stats, p).cpu_utilization_percent
            IN  /\ calc_total_history_duration(t, stats.now) = now_uc - C40_TrackedFrom(t)
                /\ (/\ t.state = TaskRunning
                    /\ t.state_history = << >>
                    /\ stats.now > t.state_start_time.pc) =>
                       percent.num = 100 * percent.den
====
